---- MODULE Spec2Model ----
(***************************************************************************)
(* The on-disk cache of the map-poster generator (src/cache_manager.py):   *)
(* three category directories (geocoding, osm_data, posters) on one        *)
(* backing store, used by several poster jobs at once.  Every method of    *)
(* CacheManager is a sequence of steps, one per file-system call, so that  *)
(* the calls of concurrent jobs interleave as the operating system lets    *)
(* them.                                                                   *)
(***************************************************************************)
EXTENDS Integers, Sequences, FiniteSets, TLC

(***************************************************************************)
(* Bounds of the model.                                                    *)
(***************************************************************************)
MaxCalls == 2      \* cache-manager calls made in one behaviour
MaxTicks == 1      \* times the clock is advanced in one behaviour
MaxFaults == 1     \* file-system calls that the system refuses or cuts short
BlockSize == 4096  \* bytes that one piece of an artifact's content stands for

\* The calls of a behaviour, in the order they are made.  Each runs in a job
\* of its own, so that any of them may overlap.
Procs == 1..MaxCalls

(***************************************************************************)
(* Time, in seconds.                                                       *)
(***************************************************************************)
Day == 24 * 60 * 60
geocoding_ttl == 90
osm_ttl == 7
poster_ttl == 30
timedelta(days) == days * Day

StartTime == 200 * Day
TickSteps == {timedelta(8), timedelta(91)}

(***************************************************************************)
(* Text.  A string is a sequence of one-character strings.  str.lower()    *)
(* maps each cased character to its lower-case form and leaves the others. *)
(***************************************************************************)
UpperChars == <<"P", "A", "R", "O", "F">>
LowerChars == <<"p", "a", "r", "o", "f">>

LowerChar(c) ==
  IF \E i \in DOMAIN UpperChars : UpperChars[i] = c
  THEN LowerChars[CHOOSE i \in DOMAIN UpperChars : UpperChars[i] = c]
  ELSE c

lower(s) == [i \in DOMAIN s |-> LowerChar(s[i])]

(***************************************************************************)
(* JSON text, as the sequence of its lexical pieces.  A number is written  *)
(* digit by digit, a string between quotes character by character.         *)
(***************************************************************************)
Digit == {"0", "1", "2", "3", "4", "5", "6", "7", "8", "9"}

RECURSIVE JNum(_)
JNum(n) == IF n < 10 THEN <<ToString(n)>> ELSE JNum(n \div 10) \o <<ToString(n % 10)>>

JStr(s) == <<"\"">> \o s \o <<"\"">>

RECURSIVE JList(_)
JList(items) ==
  IF items = <<>> THEN <<>>
  ELSE IF Len(items) = 1 THEN items[1]
  ELSE items[1] \o <<",">> \o JList(Tail(items))

\* json.dumps({"args": args, "kwargs": kwargs}, sort_keys=True); every
\* caller passes positional arguments only, so kwargs is {}.
key_data(args) ==
  <<"{", "\"args\":", "[">> \o JList(args) \o <<"]", ",", "\"kwargs\":", "{", "}", "}">>

\* hashlib.md5(...).hexdigest(): a digest of the text, taken to be free of
\* collisions on the texts of the model.
md5(text) == <<"md5">> \o text

_generate_key(args) == md5(key_data(args))

(***************************************************************************)
(* The three category directories and the artifact of a key.               *)
(***************************************************************************)
geocoding_dir == "geocoding"
osm_dir == "osm_data"
poster_dir == "posters"
Dirs == <<geocoding_dir, osm_dir, poster_dir>>

File(dir, cache_key, ext) == [dir |-> dir, stem |-> cache_key, ext |-> ext]


(***************************************************************************)
(* Reading serialized text back.  A value is a string (the sequence of its *)
(* characters), a number, None or an opaque object (its name).             *)
(***************************************************************************)
None == "None"

ScanFail == [next |-> 0, val |-> None]

RECURSIVE ScanDigits(_, _, _)
ScanDigits(toks, i, acc) ==
  IF i <= Len(toks) /\ toks[i] \in Digit
  THEN ScanDigits(toks, i + 1, acc * 10 + (CHOOSE d \in 0..9 : ToString(d) = toks[i]))
  ELSE [next |-> i, val |-> acc]

ScanValue(toks, i) ==
  IF i > Len(toks) THEN ScanFail
  ELSE IF toks[i] = "\"" THEN
    LET closing == {j \in (i + 1)..Len(toks) : toks[j] = "\""}
    IN  IF closing = {} THEN ScanFail
        ELSE LET j == CHOOSE k \in closing : \A m \in closing : k <= m
             IN  [next |-> j + 1, val |-> SubSeq(toks, i + 1, j - 1)]
  ELSE IF toks[i] \in Digit THEN
    IF toks[i] = "0" /\ i < Len(toks) /\ toks[i + 1] \in Digit THEN ScanFail
    ELSE ScanDigits(toks, i, 0)
  ELSE IF toks[i] = "null" THEN [next |-> i + 1, val |-> None]
  ELSE IF toks[i] = "obj" /\ i < Len(toks) THEN [next |-> i + 2, val |-> toks[i + 1]]
  ELSE ScanFail

LoadFail == [ok |-> FALSE, data |-> <<>>]

\* The members of a mapping from position i on, up to the closing piece.
\* strict: text after the closing piece is an error (json: "Extra data");
\* pickle stops reading at its STOP opcode.
RECURSIVE ScanMembers(_, _, _, _, _)
ScanMembers(toks, i, d, closing, strict) ==
  LET k == ScanValue(toks, i)
  IN  IF i > Len(toks) \/ toks[i] # "\"" \/ k.next = 0 THEN LoadFail
      ELSE IF k.next > Len(toks) \/ toks[k.next] # ":" THEN LoadFail
      ELSE LET v == ScanValue(toks, k.next + 1)
           IN  IF v.next = 0 \/ v.next > Len(toks) THEN LoadFail
               ELSE IF toks[v.next] = ","
                 THEN ScanMembers(toks, v.next + 1, (k.val :> v.val) @@ d, closing, strict)
               ELSE IF toks[v.next] = closing /\ (~strict \/ v.next = Len(toks))
                 THEN [ok |-> TRUE, data |-> (k.val :> v.val) @@ d]
               ELSE LoadFail

Member(name, value) == JStr(<<name>>) \o <<":">> \o value

\* the two coordinates written under each other's name
json_dump_swapped(data) ==
  <<"{">> \o JList(<< Member("city", JStr(data.city)),
                      Member("country", JStr(data.country)),
                      Member("latitude", JNum(data.longitude)),
                      Member("longitude", JNum(data.latitude)),
                      Member("cached_at", JStr(<<ToString(data.cached_at)>>)) >>)
          \o <<"}">>

\* json.dump(data, f, indent=2) of set_geocoding's data
json_dump(data) ==
  <<"{">> \o JList(<< Member("city", JStr(data.city)),
                      Member("country", JStr(data.country)),
                      Member("latitude", JNum(data.latitude)),
                      Member("longitude", JNum(data.longitude)),
                      Member("cached_at", JStr(<<ToString(data.cached_at)>>)) >>)
          \o <<"}">>

\* json.load(f): raises (ok = FALSE) on anything but one complete document
json_load(text) ==
  IF Len(text) < 2 \/ text[1] # "{" THEN LoadFail
  ELSE IF text = <<"{", "}">> THEN [ok |-> TRUE, data |-> <<>>]
  ELSE ScanMembers(text, 2, <<>>, "}", TRUE)

PObj(x) == IF x = None THEN <<"null">> ELSE <<"obj", x>>

\* pickle.dump(data, f) of set_osm_data's data
pickle_dump(data) ==
  <<"PROTO">> \o JList(<< Member("graph", PObj(data.graph)),
                          Member("water", PObj(data.water)),
                          Member("parks", PObj(data.parks)),
                          Member("latitude", JNum(data.latitude)),
                          Member("longitude", JNum(data.longitude)),
                          Member("distance", JNum(data.distance)),
                          Member("network_type", JStr(data.network_type)),
                          Member("cached_at", JStr(<<ToString(data.cached_at)>>)) >>)
               \o <<"STOP">>

\* pickle.load(f): reads up to the STOP opcode and no further
pickle_load(bytes) ==
  IF Len(bytes) < 2 \/ bytes[1] # "PROTO" THEN LoadFail
  ELSE ScanMembers(bytes, 2, <<>>, "STOP", FALSE)

(***************************************************************************)
(* The backing store: the artifacts present, each with its content and its *)
(* modification time.  Writing through an open file puts the bytes at the  *)
(* writer's own offset.                                                    *)
(***************************************************************************)
VARIABLES fs, now, pc, fr, ticks, faults

vars == <<fs, now, pc, fr, ticks, faults>>

exists(store, file) == file \in DOMAIN store

Artifact(content, mtime) == [content |-> content, mtime |-> mtime]

WriteAt(content, off, chunk) ==
  LET n == IF Len(content) > off + Len(chunk) THEN Len(content) ELSE off + Len(chunk)
  IN  [i \in 1..n |-> IF i > off /\ i <= off + Len(chunk) THEN chunk[i - off]
                      ELSE IF i <= Len(content) THEN content[i]
                      ELSE "\\0"]

unlink(store, file) == [f \in DOMAIN store \ {file} |-> store[f]]

\* Path.glob: '*' matches every name of the directory, '*.ext' the names
\* with that extension.
glob(store, dir, pattern) ==
  {f \in DOMAIN store : f.dir = dir /\ (pattern = <<"*">> \/ pattern = <<"*", f.ext>>)}

\* open(file, 'w'): creates the artifact, or empties the one that is there
open_w(store, file, t) ==
  IF exists(store, file) THEN [store EXCEPT ![file] = Artifact(<<>>, t)]
  ELSE (file :> Artifact(<<>>, t)) @@ store

\* f.write(chunk) through a handle; a handle whose artifact was unlinked
\* (live = FALSE) writes to a file no path names any more.
write(store, file, live, off, chunk, t) ==
  IF live /\ exists(store, file) /\ chunk # <<>>
  THEN [store EXCEPT ![file] = Artifact(WriteAt(@.content, off, chunk), t)]
  ELSE store


(***************************************************************************)
(* The calls in progress.  pc[p] is the step job p is at; fr[p] holds the  *)
(* locals of its call, and with them what the call has seen so far (seen,  *)
(* obs, age), for the properties to refer to.                              *)
(***************************************************************************)
NoFile == [dir |-> "", stem |-> <<>>, ext |-> ""]
Pending == [kind |-> "pending"]
ReturnNone == [kind |-> "None"]
ReturnValue(v) == [kind |-> "value", v |-> v]
Raise(exc) == [kind |-> "raise", exc |-> exc]

Frame ==
  [op |-> "idle", cache_file |-> NoFile, ttl_days |-> 0, args |-> <<>>,
   ret |-> Pending, live |-> FALSE, off |-> 0, buf |-> <<>>,
   dirs |-> <<>>, swept |-> 0, files |-> {}, removed_count |-> 0,
   seen |-> FALSE, obs |-> <<>>, age |-> 0, before |-> {}, at |-> 0, store0 |-> <<>>]

\* p is the next call to be made
Free(p) ==
  /\ pc[p] = "idle"
  /\ \A q \in Procs : q < p => pc[q] # "idle"

\* before: the calls that had returned when this one was made; at: the time
\* of the call; store0: the store the call found
Call(p, op, file, ttl, args, buf, first) ==
  /\ fr' = [fr EXCEPT ![p] = [Frame EXCEPT !.op = op, !.cache_file = file,
                                           !.ttl_days = ttl, !.args = args, !.buf = buf,
                                           !.before = {q \in Procs : pc[q] = "done"},
                                           !.at = now, !.store0 = fs]]
  /\ pc' = [pc EXCEPT ![p] = first]
  /\ UNCHANGED <<fs, now, ticks, faults>>

\* what is left of a frame when its call is over: the arguments, the result
\* and what the call saw
Ended(frame, ret) ==
  [frame EXCEPT !.ret = ret, !.live = FALSE, !.off = 0, !.buf = <<>>, !.dirs = <<>>,
                !.swept = 0, !.files = {}, !.ttl_days = 0]

\* the call returns to (or raises into) its caller
Finish(p, ret) ==
  /\ pc' = [pc EXCEPT ![p] = "done"]
  /\ fr' = [fr EXCEPT ![p] = Ended(@, ret)]

\* the order in which a directory hands out the files of a listing
NextFile(files) == CHOOSE file \in files : TRUE

Detached(file) ==
  [q \in Procs |-> IF fr[q].cache_file = file THEN [fr[q] EXCEPT !.live = FALSE] ELSE fr[q]]

\* The system refuses a call or cuts it short (no permission, a full disk,
\* a value that cannot be serialized).
Fault == faults < MaxFaults /\ faults' = faults + 1
NoFault == faults' = faults

(***************************************************************************)
(* _is_cache_valid                                                         *)
(***************************************************************************)
\* an artifact aged exactly the TTL taken for expired
expired_at_ttl(age, ttl_days) == age >= timedelta(ttl_days)

\* line 60: age > timedelta(days=ttl_days)
expired(age, ttl_days) == age > timedelta(ttl_days)

\* the whole check on one view of the store
_is_cache_valid(store, cache_file, ttl_days, t) ==
  IF ~exists(store, cache_file) THEN FALSE
  ELSE ~expired(t - store[cache_file].mtime, ttl_days)

\* Where the caller goes on with the check's answer: a get reads the
\* artifact or reports a miss; the sweep unlinks the file or takes the next.
AfterValid(p, valid) ==
  CASE fr[p].op = "get_geocoding" -> IF valid THEN "get_geocoding_read" ELSE "miss"
    [] fr[p].op = "get_osm_data" -> IF valid THEN "get_osm_data_read" ELSE "miss"
    [] fr[p].op = "get_poster" -> IF valid THEN "get_poster_hit" ELSE "miss"
    [] fr[p].op = "cleanup_expired" -> IF valid THEN "cleanup_loop" ELSE "cleanup_unlink"

\* line 53: cache_file.exists()
is_cache_valid_exists(p) ==
  /\ pc[p] = "valid_exists"
  /\ pc' = [pc EXCEPT ![p] = IF exists(fs, fr[p].cache_file) THEN "valid_stat"
                             ELSE AfterValid(p, FALSE)]
  /\ UNCHANGED <<fs, now, fr, ticks, faults>>

\* lines 57-64: cache_file.stat().st_mtime, which raises when the artifact
\* is gone by now, and the comparison of its age with the TTL
is_cache_valid_stat(p) ==
  /\ pc[p] = "valid_stat"
  /\ IF ~exists(fs, fr[p].cache_file)
     THEN Finish(p, Raise("FileNotFoundError"))
     ELSE /\ pc' = [pc EXCEPT ![p] =
                      AfterValid(p, _is_cache_valid(fs, fr[p].cache_file, fr[p].ttl_days, now))]
          /\ fr' = [fr EXCEPT ![p].seen = TRUE, ![p].obs = fs[fr[p].cache_file].content,
                              ![p].age = now - fs[fr[p].cache_file].mtime]
  /\ UNCHANGED <<fs, now, ticks, faults>>

\* the miss that removes the entry it found invalid
get_miss_evicting(p) ==
  /\ pc[p] = "miss"
  /\ Finish(p, ReturnNone)
  /\ fs' = IF exists(fs, fr[p].cache_file) THEN unlink(fs, fr[p].cache_file) ELSE fs
  /\ UNCHANGED <<now, ticks, faults>>

\* the "cache MISS" return of the three get methods
get_miss(p) ==
  /\ pc[p] = "miss"
  /\ Finish(p, ReturnNone)
  /\ UNCHANGED <<fs, now, ticks, faults>>

\* How much of a text reaches the file: all of it, or, when the write fails
\* on the way (an unserializable value, a full disk), a part.
WrittenLengths(buf) == {Len(buf) \div 2, Len(buf)}

(***************************************************************************)
(* Geocoding                                                               *)
(***************************************************************************)
Places == { [city |-> <<"P", "a">>, country |-> <<"F">>],
            [city |-> <<"p", "A">>, country |-> <<"f">>],
            [city |-> <<"R", "o">>, country |-> <<"F">>] }
Latitudes == {48, 4}
Longitudes == {2}

\* the country hashed as it was given
geocoding_file_cased(city, country) ==
  File(geocoding_dir, _generate_key(<<JStr(lower(city)), JStr(country)>>), ".json")

geocoding_file(city, country) ==
  File(geocoding_dir, _generate_key(<<JStr(lower(city)), JStr(lower(country))>>), ".json")

get_geocoding(p) ==
  /\ Free(p)
  /\ \E place \in Places :
       Call(p, "get_geocoding", geocoding_file(place.city, place.country), geocoding_ttl,
            place, <<>>, "valid_exists")

\* the read outside the try: what json.load raises reaches the caller
get_geocoding_read_unguarded(p) ==
  /\ pc[p] = "get_geocoding_read"
  /\ IF ~exists(fs, fr[p].cache_file)
     THEN Finish(p, Raise("FileNotFoundError"))
     ELSE LET text == fs[fr[p].cache_file].content
              r == json_load(text)
          IN  /\ pc' = [pc EXCEPT ![p] = "done"]
              /\ fr' = [fr EXCEPT ![p] =
                          Ended([@ EXCEPT !.seen = TRUE, !.obs = text],
                                IF ~r.ok THEN Raise("JSONDecodeError")
                                ELSE IF {<<"latitude">>, <<"longitude">>} \subseteq DOMAIN r.data
                                THEN ReturnValue(<<r.data[<<"latitude">>], r.data[<<"longitude">>]>>)
                                ELSE Raise("KeyError"))]
  /\ UNCHANGED <<fs, now, ticks, faults>>

\* lines 83-90: open, json.load and the two subscripts, inside the try
get_geocoding_read(p) ==
  /\ pc[p] = "get_geocoding_read"
  /\ IF ~exists(fs, fr[p].cache_file)
     THEN Finish(p, ReturnNone)
     ELSE LET text == fs[fr[p].cache_file].content
              r == json_load(text)
          IN  /\ pc' = [pc EXCEPT ![p] = "done"]
              /\ fr' = [fr EXCEPT ![p] =
                          Ended([@ EXCEPT !.seen = TRUE, !.obs = text],
                                IF r.ok /\ {<<"latitude">>, <<"longitude">>} \subseteq DOMAIN r.data
                                THEN ReturnValue(<<r.data[<<"latitude">>], r.data[<<"longitude">>]>>)
                                ELSE ReturnNone)]
  /\ UNCHANGED <<fs, now, ticks, faults>>

\* lines 105-114: the key, the file and the data of one call
set_geocoding_call(p, place, latitude, longitude) ==
  Call(p, "set_geocoding", geocoding_file(place.city, place.country), geocoding_ttl,
       [city |-> place.city, country |-> place.country,
        latitude |-> latitude, longitude |-> longitude],
       json_dump([city |-> place.city, country |-> place.country, latitude |-> latitude,
                  longitude |-> longitude, cached_at |-> now]),
       "set_geocoding_open")

set_geocoding(p) ==
  /\ Free(p)
  /\ \E place \in Places, latitude \in Latitudes, longitude \in Longitudes :
       set_geocoding_call(p, place, latitude, longitude)

\* the file opened for appending: what it held stays
set_geocoding_open_append(p) ==
  /\ pc[p] = "set_geocoding_open"
  /\ \/ /\ fs' = IF exists(fs, fr[p].cache_file) THEN fs
                 ELSE open_w(fs, fr[p].cache_file, now)
        /\ fr' = [fr EXCEPT ![p].live = TRUE,
                            ![p].off = IF exists(fs, fr[p].cache_file)
                                       THEN Len(fs[fr[p].cache_file].content) ELSE 0]
        /\ pc' = [pc EXCEPT ![p] = "set_geocoding_dump"]
        /\ NoFault
     \/ /\ Fault
        /\ Finish(p, ReturnNone)
        /\ UNCHANGED fs
  /\ UNCHANGED <<now, ticks>>

\* line 117: open(cache_file, 'w'), which may fail (OSError, caught)
set_geocoding_open(p) ==
  /\ pc[p] = "set_geocoding_open"
  /\ \/ /\ fs' = open_w(fs, fr[p].cache_file, now)
        /\ fr' = [fr EXCEPT ![p].live = TRUE, ![p].off = 0]
        /\ pc' = [pc EXCEPT ![p] = "set_geocoding_dump"]
        /\ NoFault
     \/ /\ Fault
        /\ Finish(p, ReturnNone)
        /\ UNCHANGED fs
  /\ UNCHANGED <<now, ticks>>

\* lines 118-121: json.dump into the file's buffer and the close that
\* flushes it.  The text reaches the file in one write at the handle's
\* offset; when serializing or flushing fails, only a part of it does, and
\* the exception is caught.
set_geocoding_dump(p) ==
  /\ pc[p] = "set_geocoding_dump"
  /\ \E n \in WrittenLengths(fr[p].buf) :
       /\ fs' = write(fs, fr[p].cache_file, fr[p].live, fr[p].off, SubSeq(fr[p].buf, 1, n), now)
       /\ IF n = Len(fr[p].buf) THEN NoFault ELSE Fault
  /\ Finish(p, ReturnNone)
  /\ UNCHANGED <<now, ticks>>

(***************************************************************************)
(* OSM data (feature bundles)                                              *)
(***************************************************************************)
\* round(x, 4) of a coordinate given in units of 0.00001 degree: the nearest
\* multiple of 0.0001, in units of 0.0001 (no coordinate of the model is a
\* tie)
\* the digits after the fourth decimal cut off instead of rounded
round4_down(x) == x \div 10

round4(x) == (x + 5) \div 10

\* requests: raw coordinates, distance in meters, network type
OsmQueries == { [latitude |-> 12, longitude |-> 21, distance |-> 5, network_type |-> <<"all">>],
                [latitude |-> 14, longitude |-> 19, distance |-> 5, network_type |-> <<"all">>],
                [latitude |-> 16, longitude |-> 21, distance |-> 5, network_type |-> <<"all">>] }

\* what the fetch hands over: graph, water, parks
Bundles == { [graph |-> "G", water |-> "W", parks |-> None],
             [graph |-> None, water |-> None, parks |-> None] }

osm_file(q) ==
  File(osm_dir,
       _generate_key(<<JNum(round4(q.latitude)), JNum(round4(q.longitude)),
                       JNum(q.distance), JStr(q.network_type)>>),
       ".pkl")

get_osm_data(p) ==
  /\ Free(p)
  /\ \E q \in OsmQueries :
       Call(p, "get_osm_data", osm_file(q), osm_ttl, q, <<>>, "valid_exists")

\* lines 147-154: open and pickle.load, inside the try
get_osm_data_read(p) ==
  /\ pc[p] = "get_osm_data_read"
  /\ IF ~exists(fs, fr[p].cache_file)
     THEN Finish(p, ReturnNone)
     ELSE LET bytes == fs[fr[p].cache_file].content
              r == pickle_load(bytes)
          IN  /\ pc' = [pc EXCEPT ![p] = "done"]
              /\ fr' = [fr EXCEPT ![p] =
                          Ended([@ EXCEPT !.seen = TRUE, !.obs = bytes],
                                IF r.ok THEN ReturnValue(r.data) ELSE ReturnNone)]
  /\ UNCHANGED <<fs, now, ticks, faults>>

\* lines 173-188: the key, the file and the data of one call
set_osm_data_call(p, q, b) ==
  Call(p, "set_osm_data", osm_file(q), osm_ttl,
       [latitude |-> q.latitude, longitude |-> q.longitude, distance |-> q.distance,
        network_type |-> q.network_type, graph |-> b.graph, water |-> b.water,
        parks |-> b.parks],
       pickle_dump([graph |-> b.graph, water |-> b.water, parks |-> b.parks,
                    latitude |-> round4(q.latitude), longitude |-> round4(q.longitude),
                    distance |-> q.distance, network_type |-> q.network_type,
                    cached_at |-> now]),
       "set_osm_data_open")

set_osm_data(p) ==
  /\ Free(p)
  /\ \E q \in OsmQueries, b \in Bundles : set_osm_data_call(p, q, b)

\* the open outside the try: its failure reaches the caller
set_osm_data_open_unguarded(p) ==
  /\ pc[p] = "set_osm_data_open"
  /\ \/ /\ fs' = open_w(fs, fr[p].cache_file, now)
        /\ fr' = [fr EXCEPT ![p].live = TRUE, ![p].off = 0]
        /\ pc' = [pc EXCEPT ![p] = "set_osm_data_dump"]
        /\ NoFault
     \/ /\ Fault
        /\ Finish(p, Raise("OSError"))
        /\ UNCHANGED fs
  /\ UNCHANGED <<now, ticks>>

\* line 191: open(cache_file, 'wb'), which may fail (OSError, caught)
set_osm_data_open(p) ==
  /\ pc[p] = "set_osm_data_open"
  /\ \/ /\ fs' = open_w(fs, fr[p].cache_file, now)
        /\ fr' = [fr EXCEPT ![p].live = TRUE, ![p].off = 0]
        /\ pc' = [pc EXCEPT ![p] = "set_osm_data_dump"]
        /\ NoFault
     \/ /\ Fault
        /\ Finish(p, ReturnNone)
        /\ UNCHANGED fs
  /\ UNCHANGED <<now, ticks>>

\* lines 192-195: pickle.dump hands the bytes to the file a frame at a time;
\* the bundle takes two writes.  A write may fail (an unpicklable object, a
\* full disk): the exception is caught and what was written stays.
set_osm_data_dump(p) ==
  /\ pc[p] = "set_osm_data_dump"
  /\ LET half == Len(fr[p].buf) \div 2
         chunk == IF fr[p].off = 0 THEN SubSeq(fr[p].buf, 1, half)
                  ELSE SubSeq(fr[p].buf, half + 1, Len(fr[p].buf))
     IN  \/ /\ fs' = write(fs, fr[p].cache_file, fr[p].live, fr[p].off, chunk, now)
            /\ IF fr[p].off = 0
               THEN /\ fr' = [fr EXCEPT ![p].off = half]
                    /\ pc' = pc
               ELSE Finish(p, ReturnNone)
            /\ NoFault
         \/ /\ Fault
            /\ Finish(p, ReturnNone)
            /\ UNCHANGED fs
  /\ UNCHANGED <<now, ticks>>

(***************************************************************************)
(* Posters                                                                 *)
(***************************************************************************)
PosterJobs == { [city |-> <<"P", "a">>, country |-> <<"F">>, theme |-> <<"noir">>,
                 distance |-> 5, width |-> 12, height |-> 16, dpi |-> 300],
                [city |-> <<"p", "A">>, country |-> <<"f">>, theme |-> <<"noir">>,
                 distance |-> 5, width |-> 12, height |-> 16, dpi |-> 300] }

\* the images poster_path may name: a poster rendered just now, one that
\* was rendered 40 days before the start, and a path with no file
NoImage == [present |-> FALSE, bytes |-> <<>>, mtime |-> 0]
Images(t) == { [present |-> TRUE, bytes |-> <<"PNG", "a", "IEND">>, mtime |-> t],
               [present |-> TRUE, bytes |-> <<"PNG", "b", "b", "IEND">>,
                mtime |-> StartTime - timedelta(40)],
               NoImage }

\* the resolution left out of the key
poster_file_without_dpi(j) ==
  File(poster_dir,
       _generate_key(<<JStr(lower(j.city)), JStr(lower(j.country)), JStr(j.theme),
                       JNum(j.distance), JNum(j.width), JNum(j.height)>>),
       ".png")

poster_file(j) ==
  File(poster_dir,
       _generate_key(<<JStr(lower(j.city)), JStr(lower(j.country)), JStr(j.theme),
                       JNum(j.distance), JNum(j.width), JNum(j.height), JNum(j.dpi)>>),
       ".png")

get_poster(p) ==
  /\ Free(p)
  /\ \E j \in PosterJobs :
       Call(p, "get_poster", poster_file(j), poster_ttl, j, <<>>, "valid_exists")

\* lines 216-217: the path of the artifact is the result (obs: what the
\* path leads to when it is handed out)
get_poster_hit(p) ==
  /\ pc[p] = "get_poster_hit"
  /\ pc' = [pc EXCEPT ![p] = "done"]
  /\ fr' = [fr EXCEPT ![p] =
              Ended([fr[p] EXCEPT !.obs = IF exists(fs, fr[p].cache_file)
                                          THEN fs[fr[p].cache_file].content ELSE @],
                    ReturnValue(fr[p].cache_file))]
  /\ UNCHANGED <<fs, now, ticks, faults>>

\* lines 231-234: the key and the file of one call
set_poster_call(p, j, image) ==
  Call(p, "set_poster", poster_file(j), poster_ttl,
       [job |-> j, image |-> image], image.bytes, "set_poster_open")

set_poster(p) ==
  /\ Free(p)
  /\ \E j \in PosterJobs, image \in Images(now) : set_poster_call(p, j, image)

\* line 237, shutil.copy2: the source is opened for reading (FileNotFoundError
\* when it is missing) and the artifact for writing (OSError when refused);
\* both are caught.
set_poster_open(p) ==
  /\ pc[p] = "set_poster_open"
  /\ \/ /\ fr[p].args.image.present
        /\ fs' = open_w(fs, fr[p].cache_file, now)
        /\ fr' = [fr EXCEPT ![p].live = TRUE, ![p].off = 0]
        /\ pc' = [pc EXCEPT ![p] = "set_poster_copy"]
        /\ NoFault
     \/ /\ ~fr[p].args.image.present
        /\ Finish(p, ReturnNone)
        /\ UNCHANGED fs
        /\ NoFault
     \/ /\ fr[p].args.image.present
        /\ Fault
        /\ Finish(p, ReturnNone)
        /\ UNCHANGED fs
  /\ UNCHANGED <<now, ticks>>

\* shutil.copy2: the bytes are copied a block at a time, the image in two
\* blocks; a failed write (a full disk) ends the call, the exception caught.
set_poster_copy(p) ==
  /\ pc[p] = "set_poster_copy"
  /\ LET half == Len(fr[p].buf) \div 2
         chunk == IF fr[p].off = 0 THEN SubSeq(fr[p].buf, 1, half)
                  ELSE SubSeq(fr[p].buf, half + 1, Len(fr[p].buf))
     IN  \/ /\ fs' = write(fs, fr[p].cache_file, fr[p].live, fr[p].off, chunk, now)
            /\ fr' = [fr EXCEPT ![p].off = IF @ = 0 THEN half ELSE @,
                                ![p].live = IF fr[p].off = 0 THEN @ ELSE FALSE]
            /\ pc' = [pc EXCEPT ![p] = IF fr[p].off = 0 THEN "set_poster_copy"
                                       ELSE "set_poster_copystat"]
            /\ NoFault
         \/ /\ Fault
            /\ Finish(p, ReturnNone)
            /\ UNCHANGED fs
  /\ UNCHANGED <<now, ticks>>

\* shutil.copy2: copystat gives the artifact, by its path, the source's
\* modification time; FileNotFoundError (caught) when the path is gone.
set_poster_copystat(p) ==
  /\ pc[p] = "set_poster_copystat"
  /\ fs' = IF exists(fs, fr[p].cache_file)
           THEN [fs EXCEPT ![fr[p].cache_file].mtime = fr[p].args.image.mtime]
           ELSE fs
  /\ Finish(p, ReturnNone)
  /\ UNCHANGED <<now, ticks, faults>>

(***************************************************************************)
(* clear_cache                                                             *)
(***************************************************************************)
CacheTypes == {"all", "geocoding", "osm", "posters", "thumbnails"}

\* the feature bundles' scope given the posters' directory
directories_osm_as_posters(cache_type) ==
  CASE cache_type = "all" -> <<geocoding_dir, osm_dir, poster_dir>>
    [] cache_type = "geocoding" -> <<geocoding_dir>>
    [] cache_type = "osm" -> <<poster_dir>>
    [] cache_type = "posters" -> <<poster_dir>>
    [] OTHER -> <<>>

\* an unknown scope taken for 'all'
directories_default_all(cache_type) ==
  CASE cache_type = "geocoding" -> <<geocoding_dir>>
    [] cache_type = "osm" -> <<osm_dir>>
    [] cache_type = "posters" -> <<poster_dir>>
    [] OTHER -> <<geocoding_dir, osm_dir, poster_dir>>

\* lines 251-256 and directories.get(cache_type, [])
directories(cache_type) ==
  CASE cache_type = "all" -> <<geocoding_dir, osm_dir, poster_dir>>
    [] cache_type = "geocoding" -> <<geocoding_dir>>
    [] cache_type = "osm" -> <<osm_dir>>
    [] cache_type = "posters" -> <<poster_dir>>
    [] OTHER -> <<>>

clear_cache(p) ==
  /\ Free(p)
  /\ \E cache_type \in CacheTypes :
       Call(p, "clear_cache", NoFile, 0, [cache_type |-> cache_type], <<>>, "clear_glob")

\* lines 258-259: the next directory's listing, or the end of the call, which
\* returns to the endpoint when the endpoint made it (app.py line 101)
clear_cache_glob(p) ==
  /\ pc[p] = "clear_glob"
  /\ LET dirs == directories(fr[p].args.cache_type)
     IN  IF fr[p].swept = Len(dirs)
         THEN IF fr[p].op = "clear_cache_endpoint"
              THEN /\ pc' = [pc EXCEPT ![p] = "endpoint_respond"]
                   /\ UNCHANGED fr
              ELSE Finish(p, ReturnNone)
         ELSE LET files == glob(fs, dirs[fr[p].swept + 1], <<"*">>)
              IN  /\ fr' = [fr EXCEPT ![p].swept = @ + 1, ![p].files = files]
                  /\ pc' = [pc EXCEPT ![p] = IF files = {} THEN "clear_glob" ELSE "clear_unlink"]
  /\ UNCHANGED <<fs, now, ticks, faults>>

\* the unlink outside the try: a refusal ends the call
clear_cache_unlink_aborting(p) ==
  /\ pc[p] = "clear_unlink"
  /\ LET file == NextFile(fr[p].files)
     IN  \/ /\ exists(fs, file)
            /\ fs' = unlink(fs, file)
            /\ fr' = [Detached(file) EXCEPT ![p].files = @ \ {file}]
            /\ pc' = [pc EXCEPT ![p] = IF fr[p].files = {file} THEN "clear_glob"
                                       ELSE "clear_unlink"]
            /\ NoFault
         \/ /\ ~exists(fs, file)
            /\ Finish(p, Raise("FileNotFoundError"))
            /\ UNCHANGED fs
            /\ NoFault
         \/ /\ exists(fs, file)
            /\ Fault
            /\ Finish(p, Raise("PermissionError"))
            /\ UNCHANGED fs
  /\ UNCHANGED <<now, ticks>>

\* lines 260-264: file.unlink() inside the try; a failure (the file is gone,
\* or the system refuses) is logged and the loop goes on
clear_cache_unlink(p) ==
  /\ pc[p] = "clear_unlink"
  /\ LET file == NextFile(fr[p].files)
     IN  /\ \/ /\ exists(fs, file)
               /\ fs' = unlink(fs, file)
               /\ fr' = [Detached(file) EXCEPT ![p].files = @ \ {file}]
               /\ NoFault
            \/ /\ ~exists(fs, file)
               /\ UNCHANGED fs
               /\ fr' = [fr EXCEPT ![p].files = @ \ {file}]
               /\ NoFault
            \/ /\ exists(fs, file)
               /\ Fault
               /\ UNCHANGED fs
               /\ fr' = [fr EXCEPT ![p].files = @ \ {file}]
         /\ pc' = [pc EXCEPT ![p] = IF fr[p].files = {file} THEN "clear_glob"
                                    ELSE "clear_unlink"]
  /\ UNCHANGED <<now, ticks>>

(***************************************************************************)
(* get_cache_stats                                                         *)
(***************************************************************************)
\* st_size: every piece of content stands for one block of bytes
st_size(artifact) == Len(artifact.content) * BlockSize

\* round(total_size / (1024 * 1024), 2), in hundredths of a megabyte
\* (round half to even)
size_mb(total_size) ==
  LET n == total_size * 100
      d == 1024 * 1024
      q == n \div d
      r == n % d
  IN  IF 2 * r > d \/ (2 * r = d /\ q % 2 = 1) THEN q + 1 ELSE q

\* The directories in the order get_dir_stats is applied to them: lines
\* 279-281 for the three entries, then lines 283-285 for the total.
StatScans == <<geocoding_dir, osm_dir, poster_dir, geocoding_dir, osm_dir, poster_dir>>

get_cache_stats(p) ==
  /\ Free(p)
  /\ Call(p, "get_cache_stats", NoFile, 0, <<>>, <<>>, "stats_glob")

\* the posters' entry taken from the feature bundles' scan
stats_result_shifted(results) ==
  [geocoding |-> results[1], osm_data |-> results[2], posters |-> results[2],
   total_size_mb |-> results[4].size_mb + results[5].size_mb + results[6].size_mb]

\* lines 278-288: the dictionary built from the six results
stats_result(results) ==
  [geocoding |-> results[1], osm_data |-> results[2], posters |-> results[3],
   total_size_mb |-> results[4].size_mb + results[5].size_mb + results[6].size_mb]

\* the end of one get_dir_stats (lines 273-276), and of the call after the
\* sixth
StatsNext(p, frame, total_size) ==
  LET results == Append(frame.dirs, [count |-> frame.removed_count,
                                     size_mb |-> size_mb(total_size)])
  IN  IF Len(results) = Len(StatScans)
      THEN /\ fr' = [fr EXCEPT ![p] = Ended([frame EXCEPT !.cache_file = NoFile],
                                            ReturnValue(stats_result(results)))]
           /\ pc' = [pc EXCEPT ![p] = "done"]
      ELSE /\ fr' = [fr EXCEPT ![p] = [frame EXCEPT !.dirs = results, !.off = 0]]
           /\ pc' = [pc EXCEPT ![p] = "stats_glob"]

\* line 271: files = list(directory.glob('*')); len(files) is the count
get_dir_stats_glob(p) ==
  /\ pc[p] = "stats_glob"
  /\ LET files == glob(fs, StatScans[Len(fr[p].dirs) + 1], <<"*">>)
         frame == [fr[p] EXCEPT !.files = files, !.removed_count = Cardinality(files)]
     IN  IF files = {}
         THEN StatsNext(p, frame, 0)
         ELSE /\ fr' = [fr EXCEPT ![p] = frame]
              /\ pc' = [pc EXCEPT ![p] = "stats_is_file"]
  /\ UNCHANGED <<fs, now, ticks, faults>>

\* line 272: f.is_file(), False for a file that is gone
get_dir_stats_is_file(p) ==
  /\ pc[p] = "stats_is_file"
  /\ LET file == NextFile(fr[p].files)
         frame == [fr[p] EXCEPT !.files = @ \ {file}, !.cache_file = file]
     IN  IF exists(fs, file)
         THEN /\ fr' = [fr EXCEPT ![p] = frame]
              /\ pc' = [pc EXCEPT ![p] = "stats_stat"]
         ELSE IF frame.files = {}
         THEN StatsNext(p, frame, frame.off)
         ELSE /\ fr' = [fr EXCEPT ![p] = frame]
              /\ pc' = pc
  /\ UNCHANGED <<fs, now, ticks, faults>>

\* line 272: f.stat().st_size, which raises when the file is gone by now
get_dir_stats_stat(p) ==
  /\ pc[p] = "stats_stat"
  /\ IF ~exists(fs, fr[p].cache_file)
     THEN Finish(p, Raise("FileNotFoundError"))
     ELSE LET total_size == fr[p].off + st_size(fs[fr[p].cache_file])
          IN  IF fr[p].files = {}
              THEN StatsNext(p, fr[p], total_size)
              ELSE /\ fr' = [fr EXCEPT ![p].off = total_size]
                   /\ pc' = [pc EXCEPT ![p] = "stats_is_file"]
  /\ UNCHANGED <<fs, now, ticks, faults>>

(***************************************************************************)
(* cleanup_expired                                                         *)
(***************************************************************************)
\* every loop run with the geocoding TTL
Sweeps_one_ttl ==
  << [dir |-> geocoding_dir, pattern |-> <<"*", ".json">>, ttl |-> geocoding_ttl],
     [dir |-> osm_dir, pattern |-> <<"*", ".pkl">>, ttl |-> geocoding_ttl],
     [dir |-> poster_dir, pattern |-> <<"*", ".png">>, ttl |-> geocoding_ttl] >>

\* the three loops of lines 294-310: directory, pattern, TTL
Sweeps == << [dir |-> geocoding_dir, pattern |-> <<"*", ".json">>, ttl |-> geocoding_ttl],
             [dir |-> osm_dir, pattern |-> <<"*", ".pkl">>, ttl |-> osm_ttl],
             [dir |-> poster_dir, pattern |-> <<"*", ".png">>, ttl |-> poster_ttl] >>

cleanup_expired(p) ==
  /\ Free(p)
  /\ Call(p, "cleanup_expired", NoFile, 0, <<>>, <<>>, "cleanup_loop")

\* The head of a loop: the next file of the listing goes to _is_cache_valid;
\* at the end of a listing the next directory is listed (lines 295, 301,
\* 307); after the last one the count is returned (line 313).
cleanup_expired_loop(p) ==
  /\ pc[p] = "cleanup_loop"
  /\ IF fr[p].files # {}
     THEN LET file == NextFile(fr[p].files)
          IN  /\ fr' = [fr EXCEPT ![p].files = @ \ {file}, ![p].cache_file = file,
                                  ![p].seen = FALSE, ![p].obs = <<>>, ![p].age = 0]
              /\ pc' = [pc EXCEPT ![p] = "valid_exists"]
     ELSE IF fr[p].swept < Len(Sweeps)
     THEN LET sweep == Sweeps[fr[p].swept + 1]
          IN  /\ fr' = [fr EXCEPT ![p].swept = @ + 1, ![p].ttl_days = sweep.ttl,
                                  ![p].files = glob(fs, sweep.dir, sweep.pattern)]
                  /\ pc' = pc
     ELSE Finish(p, ReturnValue(fr[p].removed_count))
  /\ UNCHANGED <<fs, now, ticks, faults>>

\* the expired file counted and left in place
cleanup_expired_unlink_keeping(p) ==
  /\ pc[p] = "cleanup_unlink"
  /\ fr' = [fr EXCEPT ![p].removed_count = @ + 1, ![p].seen = FALSE]
  /\ pc' = [pc EXCEPT ![p] = "cleanup_loop"]
  /\ UNCHANGED <<fs, now, ticks, faults>>

\* lines 297-298 (303-304, 309-310): file.unlink(), outside any try, then
\* the count
cleanup_expired_unlink(p) ==
  /\ pc[p] = "cleanup_unlink"
  /\ \/ /\ exists(fs, fr[p].cache_file)
        /\ fs' = unlink(fs, fr[p].cache_file)
        /\ fr' = [Detached(fr[p].cache_file) EXCEPT ![p].removed_count = @ + 1,
                                                     ![p].seen = FALSE]
        /\ pc' = [pc EXCEPT ![p] = "cleanup_loop"]
        /\ NoFault
     \/ /\ ~exists(fs, fr[p].cache_file)
        /\ Finish(p, Raise("FileNotFoundError"))
        /\ UNCHANGED fs
        /\ NoFault
     \/ /\ exists(fs, fr[p].cache_file)
        /\ Fault
        /\ Finish(p, Raise("PermissionError"))
        /\ UNCHANGED fs
  /\ UNCHANGED <<now, ticks>>

(***************************************************************************)
(* The environment and the behaviours                                      *)
(***************************************************************************)
\* Time passes between calls.
Tick ==
  /\ ticks < MaxTicks
  /\ \A p \in Procs : pc[p] \in {"idle", "done"}
  /\ \E d \in TickSteps : now' = now + d
  /\ ticks' = ticks + 1
  /\ UNCHANGED <<fs, pc, fr, faults>>

\* What a completed set leaves in the store: the artifact of the key, written
\* at time t.
stored_geocoding(place, latitude, longitude, t) ==
  geocoding_file(place.city, place.country) :>
    Artifact(json_dump([city |-> place.city, country |-> place.country,
                        latitude |-> latitude, longitude |-> longitude, cached_at |-> t]), t)

stored_osm_data(q, b, t) ==
  osm_file(q) :>
    Artifact(pickle_dump([graph |-> b.graph, water |-> b.water, parks |-> b.parks,
                          latitude |-> round4(q.latitude), longitude |-> round4(q.longitude),
                          distance |-> q.distance, network_type |-> q.network_type,
                          cached_at |-> t]), t)

stored_poster(j, bytes, t) == poster_file(j) :> Artifact(bytes, t)

Paris == [city |-> <<"P", "a">>, country |-> <<"F">>]
Rome == [city |-> <<"R", "o">>, country |-> <<"F">>]
Query(latitude, longitude) ==
  [latitude |-> latitude, longitude |-> longitude, distance |-> 5, network_type |-> <<"all">>]
ParisNoir == [city |-> <<"P", "a">>, country |-> <<"F">>, theme |-> <<"noir">>,
              distance |-> 5, width |-> 12, height |-> 16, dpi |-> 300]

\* The stores a behaviour starts from: the empty one of a new installation,
\* and one that earlier calls have filled, with entries of several ages.
SeedStore ==
  stored_geocoding(Paris, 48, 2, StartTime - timedelta(8))
  @@ stored_geocoding(Rome, 4, 2, StartTime - timedelta(91))
  @@ stored_osm_data(Query(12, 21), [graph |-> "G", water |-> "W", parks |-> None],
                     StartTime - 1)
  @@ stored_osm_data(Query(16, 21), [graph |-> "G", water |-> None, parks |-> None],
                     StartTime - timedelta(8))
  @@ stored_osm_data(Query(26, 21), [graph |-> "G", water |-> None, parks |-> "K"],
                     StartTime - timedelta(1))
  @@ stored_poster(ParisNoir, <<"PNG", "a", "IEND">>, StartTime - timedelta(8))

InitStores == {<<>>, SeedStore}

Init ==
  /\ fs \in InitStores
  /\ now = StartTime
  /\ pc = [p \in Procs |-> "idle"]
  /\ fr = [p \in Procs |-> Frame]
  /\ ticks = 0
  /\ faults = 0

Next ==
  \/ Tick
  \/ \E p \in Procs :
       \/ is_cache_valid_exists(p)
       \/ is_cache_valid_stat(p)
       \/ get_miss(p)
       \/ get_geocoding(p)
       \/ get_geocoding_read(p)
       \/ set_geocoding(p)
       \/ set_geocoding_open(p)
       \/ set_geocoding_dump(p)
       \/ get_osm_data(p)
       \/ get_osm_data_read(p)
       \/ set_osm_data(p)
       \/ set_osm_data_open(p)
       \/ set_osm_data_dump(p)
       \/ get_poster(p)
       \/ get_poster_hit(p)
       \/ set_poster(p)
       \/ set_poster_open(p)
       \/ set_poster_copy(p)
       \/ set_poster_copystat(p)
       \/ clear_cache(p)
       \/ clear_cache_glob(p)
       \/ clear_cache_unlink(p)
       \/ get_cache_stats(p)
       \/ get_dir_stats_glob(p)
       \/ get_dir_stats_is_file(p)
       \/ get_dir_stats_stat(p)
       \/ cleanup_expired(p)
       \/ cleanup_expired_loop(p)
       \/ cleanup_expired_unlink(p)

Spec == Init /\ [][Next]_vars

(***************************************************************************)
(* What the properties speak of                                            *)
(***************************************************************************)
Gets == {"get_geocoding", "get_osm_data", "get_poster"}
Sets == {"set_geocoding", "set_osm_data", "set_poster"}

\* the TTL of a category directory, in seconds, as the documentation gives
\* it: 90 days geocoding, 7 days feature bundles, 30 days posters
TTLSeconds(dir) ==
  CASE dir = "geocoding" -> 90 * 86400
    [] dir = "osm_data" -> 7 * 86400
    [] dir = "posters" -> 30 * 86400

\* no other call overlaps p's or follows it: every other call had returned
\* when p was made, or has not been made
Alone(p) == \A q \in Procs \ {p} : pc[q] = "idle" \/ q \in fr[p].before

\* the validity check has just answered p: valid, or invalid
ReportsValid(p) ==
  \/ pc[p] \in {"get_geocoding_read", "get_osm_data_read", "get_poster_hit"}
  \/ pc[p] = "cleanup_loop" /\ fr[p].seen
ReportsInvalid(p) == pc[p] \in {"miss", "cleanup_unlink"}

(***************************************************************************)
(* Expiry at the boundary: stores whose artifacts are one second younger   *)
(* than their TTL, exactly as old, and one second older.                   *)
(***************************************************************************)
BoundaryAges(ttl_days) ==
  {timedelta(ttl_days) - 1, timedelta(ttl_days), timedelta(ttl_days) + 1}

BoundaryStores ==
  LET geocoding == {<<>>} \cup {stored_geocoding(Paris, 48, 2, StartTime - a) :
                                  a \in BoundaryAges(geocoding_ttl)}
      osm_data == {<<>>} \cup {stored_osm_data(Query(12, 21),
                                               [graph |-> "G", water |-> "W", parks |-> None],
                                               StartTime - a) : a \in BoundaryAges(osm_ttl)}
      posters == {<<>>} \cup {stored_poster(ParisNoir, <<"PNG", "a", "IEND">>, StartTime - a) :
                                a \in BoundaryAges(poster_ttl)}
  IN  {g @@ o @@ i : g \in geocoding, o \in osm_data, i \in posters}

InitExpiry ==
  /\ fs \in BoundaryStores
  /\ now = StartTime
  /\ pc = [p \in Procs |-> "idle"]
  /\ fr = [p \in Procs |-> Frame]
  /\ ticks = 0
  /\ faults = 0

\* the calls that ask for a validity check
NextExpiry ==
  \E p \in Procs :
    \/ is_cache_valid_exists(p)
    \/ is_cache_valid_stat(p)
    \/ get_miss(p)
    \/ get_geocoding(p)
    \/ get_geocoding_read(p)
    \/ get_osm_data(p)
    \/ get_osm_data_read(p)
    \/ get_poster(p)
    \/ get_poster_hit(p)
    \/ cleanup_expired(p)
    \/ cleanup_expired_loop(p)
    \/ cleanup_expired_unlink(p)

SpecExpiry == InitExpiry /\ [][NextExpiry]_vars

Whole(content) ==
  /\ content # <<>>
  /\ \/ content[1] = "{" /\ content[Len(content)] = "}"
     \/ content[1] = "PROTO" /\ content[Len(content)] = "STOP"
     \/ content[1] = "PNG" /\ content[Len(content)] = "IEND"

\* C2: while sets are in progress and no write fails, what a get finds under
\* its key (and hands out as the payload or the poster path) is a complete
\* artifact, never a partially written one.
NoTornRead ==
  faults = 0 =>
    \A p \in Procs : fr[p].op \in Gets /\ fr[p].seen => Whole(fr[p].obs)

\* C3: a get of any category returns a payload or absent and never raises,
\* also when the artifact is deleted between the validity check's existence
\* test and its read of the modification time.
GetNeverRaises ==
  \A p \in Procs : fr[p].op \in Gets => fr[p].ret.kind # "raise"

\* C4: a sweep that runs while other calls delete entries never raises; with
\* no deletion refused, it runs to completion and returns a count.
SweepSurvivesDeletionRace ==
  faults = 0 =>
    \A p \in Procs :
      fr[p].op = "cleanup_expired" /\ pc[p] = "done" => fr[p].ret.kind = "value"

\* C6: a sweep that no other call overlaps does not raise when a deletion
\* fails; it goes on and returns the number of entries it has deleted.
SweepSkipsFailedDeletion ==
  \A p \in Procs :
    fr[p].op = "cleanup_expired" /\ pc[p] = "done" /\ Alone(p) =>
      /\ fr[p].ret.kind = "value"
      /\ fr[p].ret.v = Cardinality(DOMAIN fr[p].store0 \ DOMAIN fs)

(***************************************************************************)
(* The sweep                                                               *)
(***************************************************************************)
\* C5: a sweep that no other call overlaps and that returns removes exactly
\* the entries older than their category's TTL (90, 7, 30 days), leaves the
\* others as they were, and returns the number of entries removed.
SweepRemovesExactlyExpired ==
  \A p \in Procs :
    fr[p].op = "cleanup_expired" /\ pc[p] = "done" /\ Alone(p)
      /\ fr[p].ret.kind = "value" =>
      LET found == fr[p].store0
          kept == {f \in DOMAIN found : fr[p].at - found[f].mtime <= TTLSeconds(f.dir)}
      IN  /\ DOMAIN fs = kept
          /\ \A f \in kept : fs[f] = found[f]
          /\ fr[p].ret.v = Cardinality(DOMAIN found \ kept)

\* C5 witness: of three feature bundles one was older than seven days; the
\* sweep has removed it and two are left
SweepRemovedOneBundleOfThree ==
  \E p \in Procs :
    /\ fr[p].op = "cleanup_expired" /\ pc[p] = "done" /\ Alone(p)
    /\ fr[p].ret.kind = "value"
    /\ Cardinality(glob(fr[p].store0, osm_dir, <<"*">>)) = 3
    /\ Cardinality(glob(fs, osm_dir, <<"*">>)) = 2

(***************************************************************************)
(* Sets and gets                                                           *)
(***************************************************************************)
\* C8: a set of any category returns normally, whatever fails while the
\* artifact is serialized or written.
SetNeverRaises ==
  \A p \in Procs : fr[p].op \in Sets /\ pc[p] = "done" => fr[p].ret = ReturnNone

\* C8 witness: the only call made was a set of a feature bundle, a write of
\* it failed, and the set has returned
SetFailedQuietly ==
  \E p \in Procs :
    /\ fr[p].op = "set_osm_data" /\ pc[p] = "done"
    /\ \A q \in Procs \ {p} : pc[q] = "idle"
    /\ faults = 1

\* get q follows set p with nothing between them or beside them, within the
\* geocoding TTL, and nothing has failed
Follows(p, q) ==
  /\ fr[p].op = "set_geocoding" /\ pc[p] = "done"
  /\ fr[q].op = "get_geocoding" /\ pc[q] = "done"
  /\ p \in fr[q].before
  /\ fr[q].at - fr[p].at <= TTLSeconds("geocoding")
  /\ faults = 0
  /\ \A r \in Procs \ {p, q} : pc[r] = "idle" \/ r \in fr[p].before \/ q \in fr[r].before

\* C9: set_geocoding followed by get_geocoding with the same city and
\* country, with no clear, sweep or failure between them, returns exactly the
\* pair that was stored.
RoundTrip ==
  \A p, q \in Procs :
    Follows(p, q) /\ fr[q].args.city = fr[p].args.city
                  /\ fr[q].args.country = fr[p].args.country =>
      fr[q].ret = ReturnValue(<<fr[p].args.latitude, fr[p].args.longitude>>)

\* C9 witness: a pair stored and read back under the same city and country
RoundTripMade ==
  \E p, q \in Procs :
    /\ Follows(p, q)
    /\ fr[q].args.city = fr[p].args.city /\ fr[q].args.country = fr[p].args.country
    /\ fr[q].ret.kind = "value"

(***************************************************************************)
(* Letter case                                                             *)
(***************************************************************************)
CasePairs == {{"P", "p"}, {"A", "a"}, {"R", "r"}, {"O", "o"}, {"F", "f"}}
DifferOnlyInCase(s, t) ==
  /\ Len(s) = Len(t)
  /\ \A i \in DOMAIN s : s[i] = t[i] \/ {s[i], t[i]} \in CasePairs
SamePlace(a, b) ==
  DifferOnlyInCase(a.city, b.city) /\ DifferOnlyInCase(a.country, b.country)

\* the place and the other key fields of a geocoding or poster call
PlaceOf(p) == IF fr[p].op = "set_poster" THEN fr[p].args.job ELSE fr[p].args
KeyRest(p) ==
  IF fr[p].op \in {"get_poster", "set_poster"}
  THEN LET j == PlaceOf(p) IN <<"posters", j.theme, j.distance, j.width, j.height, j.dpi>>
  ELSE <<"geocoding">>
PlaceClasses == {{b \in Places : SamePlace(a, b)} : a \in Places}

\* C10: calls whose city and country differ only in letter case (the other
\* key fields equal) use the same geocoding key and the same poster key; a pair
\* set under one casing is returned by get under another; and the geocoding
\* entries are no more than the places up to letter case.
CaseInsensitiveKeys ==
  /\ \A p, q \in Procs :
       /\ fr[p].op \in {"get_geocoding", "set_geocoding", "get_poster", "set_poster"}
       /\ fr[q].op \in {"get_geocoding", "set_geocoding", "get_poster", "set_poster"}
       /\ KeyRest(p) = KeyRest(q)
       /\ SamePlace(PlaceOf(p), PlaceOf(q))
       => fr[p].cache_file = fr[q].cache_file
  /\ \A p, q \in Procs :
       Follows(p, q) /\ SamePlace(fr[p].args, fr[q].args) =>
         fr[q].ret = ReturnValue(<<fr[p].args.latitude, fr[p].args.longitude>>)
  /\ Cardinality(glob(fs, geocoding_dir, <<"*">>)) <= Cardinality(PlaceClasses)

\* C10 witness: a pair set under one casing has been returned by a get under
\* another
OtherCasingReturned ==
  \E p, q \in Procs :
    /\ Follows(p, q)
    /\ SamePlace(fr[p].args, fr[q].args)
    /\ fr[p].args.city # fr[q].args.city /\ fr[p].args.country # fr[q].args.country
    /\ fr[q].ret.kind = "value"

(***************************************************************************)
(* Corrupt artifacts: stores whose one fresh artifact holds something      *)
(* other than what a set writes.                                           *)
(***************************************************************************)
GeoWhole ==
  json_dump([city |-> <<"P", "a">>, country |-> <<"F">>, latitude |-> 48, longitude |-> 2,
             cached_at |-> StartTime])
PklWhole ==
  pickle_dump([graph |-> "G", water |-> "W", parks |-> None, latitude |-> 1, longitude |-> 2,
               distance |-> 5, network_type |-> <<"all">>, cached_at |-> StartTime])

\* cut short: every proper prefix of the text
Truncated(text) == {SubSeq(text, 1, n) : n \in 0..(Len(text) - 1)}

\* not the format at all, a second document after the first, a separator
\* lost
Malformed ==
  { <<"x", "y">>,
    GeoWhole \o <<"{", "}">>,
    <<"{">> \o Member("latitude", JNum(48)) \o Member("longitude", JNum(2)) \o <<"}">>,
    <<"PROTO">> \o Member("graph", PObj("G")) \o <<",", "STOP">>,
    <<"STOP", "PROTO">> }

\* well-formed JSON that is a mapping without one of the two coordinates
Keyless ==
  { <<"{", "}">>,
    <<"{">> \o Member("latitude", JNum(48)) \o <<"}">>,
    <<"{">> \o JList(<<Member("city", JStr(<<"P", "a">>)), Member("longitude", JNum(2))>>)
           \o <<"}">> }

\* well-formed, with the entries a get looks for, but not what a set writes:
\* coordinates that are no numbers, a bundle without its graph, water and
\* parks
Misshapen ==
  { <<"{">> \o JList(<<Member("latitude", JStr(<<"x">>)), Member("longitude", <<"null">>)>>)
           \o <<"}">>,
    <<"PROTO">> \o Member("x", JNum(1)) \o <<"STOP">> }

GeoTexts == {GeoWhole} \cup Truncated(GeoWhole) \cup Malformed \cup Keyless \cup Misshapen
PklTexts == {PklWhole} \cup Truncated(PklWhole) \cup Malformed \cup Misshapen

InitCorrupt ==
  /\ fs \in {geocoding_file(<<"P", "a">>, <<"F">>) :> Artifact(text, StartTime - 1) :
               text \in GeoTexts}
         \cup {osm_file(Query(12, 21)) :> Artifact(bytes, StartTime - 1) : bytes \in PklTexts}
  /\ now = StartTime
  /\ pc = [p \in Procs |-> "idle"]
  /\ fr = [p \in Procs |-> Frame]
  /\ ticks = 0
  /\ faults = 0

\* the gets that deserialize an artifact
NextCorrupt ==
  \E p \in Procs :
    \/ is_cache_valid_exists(p)
    \/ is_cache_valid_stat(p)
    \/ get_miss(p)
    \/ get_geocoding(p)
    \/ get_geocoding_read(p)
    \/ get_osm_data(p)
    \/ get_osm_data_read(p)

SpecCorrupt == InitCorrupt /\ [][NextCorrupt]_vars

\* a get of a geocoding entry or a feature bundle has read the artifact
HasRead(p) ==
  fr[p].op \in {"get_geocoding", "get_osm_data"} /\ pc[p] = "done" /\ fr[p].seen

\* C7 (as amended): a get whose fresh artifact cannot be deserialized
\* (malformed or truncated), or, for geocoding, deserializes to a mapping
\* without a latitude or a longitude, returns absent and does not raise;
\* content that deserializes is not examined further and is returned.
UndecodableReadsAsAbsent ==
  \A p \in Procs :
    HasRead(p) =>
      /\ fr[p].ret.kind # "raise"
      /\ fr[p].obs \in Truncated(GeoWhole) \cup Truncated(PklWhole) \cup Malformed =>
            fr[p].ret = ReturnNone
      /\ fr[p].op = "get_geocoding" /\ fr[p].obs \in Keyless => fr[p].ret = ReturnNone
      /\ fr[p].op = "get_osm_data" /\ fr[p].obs \in Keyless => fr[p].ret = ReturnNone
      /\ fr[p].obs \in Misshapen =>
            IF (fr[p].op = "get_geocoding") = (fr[p].obs[1] = "{")
            THEN fr[p].ret.kind = "value" ELSE fr[p].ret = ReturnNone

\* C7 witness: a get of a geocoding entry has read a text cut short and has
\* returned absent
TruncatedReadAsAbsent ==
  \E p \in Procs :
    /\ HasRead(p) /\ fr[p].op = "get_geocoding"
    /\ fr[p].obs \in Truncated(GeoWhole) /\ Len(fr[p].obs) > 1
    /\ fr[p].ret = ReturnNone

\* C7 as the documentation states it: malformed, truncated or wrongly shaped
\* content is returned as absent, and nothing taken from it is returned
CorruptReadsAsAbsent ==
  \A p \in Procs :
    HasRead(p) /\ fr[p].obs \notin {GeoWhole, PklWhole} => fr[p].ret = ReturnNone

(***************************************************************************)
(* Feature-bundle keys and coordinates.  Coordinates are in units of       *)
(* 0.00001 degree, so that the fourth decimal is the tens.                 *)
(***************************************************************************)
\* the gets and sets of feature bundles, on the stores a behaviour starts
\* from
NextOsm ==
  \E p \in Procs :
    \/ is_cache_valid_exists(p)
    \/ is_cache_valid_stat(p)
    \/ get_miss(p)
    \/ get_osm_data(p)
    \/ get_osm_data_read(p)
    \/ set_osm_data(p)
    \/ set_osm_data_open(p)
    \/ set_osm_data_dump(p)

SpecOsm == Init /\ [][NextOsm]_vars

OsmCall(p) == fr[p].op \in {"get_osm_data", "set_osm_data"}

\* x and y have the same nearest multiple of 0.0001
SameCell(x, y) ==
  \E k \in 0..10 : /\ 10 * k - 5 <= x /\ x < 10 * k + 5
                   /\ 10 * k - 5 <= y /\ y < 10 * k + 5

SameRadiusAndNetwork(p, q) ==
  /\ fr[p].args.distance = fr[q].args.distance
  /\ fr[p].args.network_type = fr[q].args.network_type

Distance(x, y) == IF x < y THEN y - x ELSE x - y

\* get q of a feature bundle follows set p with nothing between them or
\* beside them, within the TTL, and nothing has failed
OsmFollows(p, q) ==
  /\ fr[p].op = "set_osm_data" /\ pc[p] = "done"
  /\ fr[q].op = "get_osm_data" /\ pc[q] = "done"
  /\ p \in fr[q].before
  /\ fr[q].at - fr[p].at <= TTLSeconds("osm_data")
  /\ faults = 0
  /\ \A r \in Procs \ {p, q} : pc[r] = "idle" \/ r \in fr[p].before \/ q \in fr[r].before

\* C11 (as amended): two feature-bundle requests with the same radius and
\* network type have the same key exactly when their latitudes round to the
\* same fourth decimal and their longitudes do; a bundle set under one pair
\* of coordinates is then returned by get_osm_data under the other.
SameRoundingSharesKey ==
  /\ \A p, q \in Procs :
       OsmCall(p) /\ OsmCall(q) /\ SameRadiusAndNetwork(p, q) =>
         (fr[p].cache_file = fr[q].cache_file
            <=> /\ SameCell(fr[p].args.latitude, fr[q].args.latitude)
                /\ SameCell(fr[p].args.longitude, fr[q].args.longitude))
  /\ \A p, q \in Procs :
       /\ OsmFollows(p, q) /\ SameRadiusAndNetwork(p, q)
       /\ SameCell(fr[p].args.latitude, fr[q].args.latitude)
       /\ SameCell(fr[p].args.longitude, fr[q].args.longitude)
       => /\ fr[q].ret.kind = "value"
          /\ fr[q].ret.v[<<"graph">>] = fr[p].args.graph
          /\ fr[q].ret.v[<<"water">>] = fr[p].args.water
          /\ fr[q].ret.v[<<"parks">>] = fr[p].args.parks

\* C11 witness: a bundle set under one pair of coordinates has been returned
\* by a get under another pair
OtherCoordinatesReturned ==
  \E p, q \in Procs :
    /\ OsmFollows(p, q)
    /\ fr[p].args.latitude # fr[q].args.latitude
    /\ fr[p].args.longitude # fr[q].args.longitude
    /\ fr[q].ret.kind = "value"

\* C11 as the documentation states it: requests with the same radius and
\* network type whose latitudes and whose longitudes differ by less than the
\* rounding precision (0.0001 degree) have the same key
CloseCoordinatesShareKey ==
  \A p, q \in Procs :
    /\ OsmCall(p) /\ OsmCall(q) /\ SameRadiusAndNetwork(p, q)
    /\ Distance(fr[p].args.latitude, fr[q].args.latitude) < 10
    /\ Distance(fr[p].args.longitude, fr[q].args.longitude) < 10
    => fr[p].cache_file = fr[q].cache_file

(***************************************************************************)
(* Keys and identifying fields: sets whose arguments differ in one field   *)
(* at a time, on an empty store.                                           *)
(***************************************************************************)
VariedQueries ==
  { Query(12, 21), Query(14, 19), Query(16, 21),
    [Query(12, 21) EXCEPT !.distance = 6],
    [Query(12, 21) EXCEPT !.network_type = <<"drive">>] }

VariedJobs ==
  { ParisNoir,
    [ParisNoir EXCEPT !.city = <<"p", "A">>, !.country = <<"f">>],
    [ParisNoir EXCEPT !.city = <<"R", "o">>],
    [ParisNoir EXCEPT !.theme = <<"dark">>],
    [ParisNoir EXCEPT !.distance = 6],
    [ParisNoir EXCEPT !.width = 13],
    [ParisNoir EXCEPT !.height = 17],
    [ParisNoir EXCEPT !.dpi = 301] }

set_osm_data_varied(p) ==
  /\ Free(p)
  /\ \E q \in VariedQueries :
       set_osm_data_call(p, q, [graph |-> "G", water |-> "W", parks |-> None])

set_poster_varied(p) ==
  /\ Free(p)
  /\ \E j \in VariedJobs :
       set_poster_call(p, j, [present |-> TRUE, bytes |-> <<"PNG", "a", "IEND">>,
                              mtime |-> now])

InitKeys == Init /\ fs = <<>>

NextKeys ==
  \E p \in Procs :
    \/ set_geocoding(p)
    \/ set_geocoding_open(p)
    \/ set_geocoding_dump(p)
    \/ set_osm_data_varied(p)
    \/ set_osm_data_open(p)
    \/ set_osm_data_dump(p)
    \/ set_poster_varied(p)
    \/ set_poster_open(p)
    \/ set_poster_copy(p)
    \/ set_poster_copystat(p)

SpecKeys == InitKeys /\ [][NextKeys]_vars

\* the normalized identifying fields of two sets of one category agree
SameFields(p, q) ==
  /\ fr[p].op = fr[q].op
  /\ CASE fr[p].op = "set_geocoding" -> SamePlace(fr[p].args, fr[q].args)
       [] fr[p].op = "set_osm_data" ->
            /\ SameCell(fr[p].args.latitude, fr[q].args.latitude)
            /\ SameCell(fr[p].args.longitude, fr[q].args.longitude)
            /\ fr[p].args.distance = fr[q].args.distance
            /\ fr[p].args.network_type = fr[q].args.network_type
       [] fr[p].op = "set_poster" ->
            /\ SamePlace(fr[p].args.job, fr[q].args.job)
            /\ fr[p].args.job.theme = fr[q].args.job.theme
            /\ fr[p].args.job.distance = fr[q].args.job.distance
            /\ fr[p].args.job.width = fr[q].args.job.width
            /\ fr[p].args.job.height = fr[q].args.job.height
            /\ fr[p].args.job.dpi = fr[q].args.job.dpi

DirOf(op) ==
  CASE op = "set_geocoding" -> "geocoding"
    [] op = "set_osm_data" -> "osm_data"
    [] op = "set_poster" -> "posters"

\* the sets of one category that have returned, grouped by their fields
FieldTuplesSet(op) ==
  LET done == {p \in Procs : fr[p].op = op /\ pc[p] = "done"}
  IN  {{q \in done : SameFields(p, q)} : p \in done}

\* C12: within a category two sets use the same artifact name exactly when
\* their normalized identifying fields agree; so, once sets that did not fail
\* have returned on a store that was empty, every category holds as many
\* entries as distinct field tuples were set.
KeyIsFunctionOfFields ==
  /\ \A p, q \in Procs :
       fr[p].op \in Sets /\ fr[q].op = fr[p].op =>
         (fr[p].cache_file = fr[q].cache_file <=> SameFields(p, q))
  /\ faults = 0 /\ (\A p \in Procs : pc[p] \in {"idle", "done"}) =>
       \A op \in Sets :
         Cardinality(glob(fs, DirOf(op), <<"*">>)) = Cardinality(FieldTuplesSet(op))

\* C12 witness: two posters that differ in the resolution only have been
\* set, and the category holds two entries
TwoResolutionsTwoEntries ==
  \E p, q \in Procs :
    /\ fr[p].op = "set_poster" /\ pc[p] = "done"
    /\ fr[q].op = "set_poster" /\ pc[q] = "done"
    /\ fr[p].args.job.dpi # fr[q].args.job.dpi
    /\ [fr[p].args.job EXCEPT !.dpi = 0] = [fr[q].args.job EXCEPT !.dpi = 0]
    /\ faults = 0
    /\ Cardinality(glob(fs, poster_dir, <<"*">>)) = 2

(***************************************************************************)
(* Clearing, statistics and the sweep, on the stores a behaviour starts    *)
(* from.                                                                   *)
(***************************************************************************)
NextAdmin ==
  \/ Tick
  \/ \E p \in Procs :
       \/ is_cache_valid_exists(p)
       \/ is_cache_valid_stat(p)
       \/ clear_cache(p)
       \/ clear_cache_glob(p)
       \/ clear_cache_unlink(p)
       \/ get_cache_stats(p)
       \/ get_dir_stats_glob(p)
       \/ get_dir_stats_is_file(p)
       \/ get_dir_stats_stat(p)
       \/ cleanup_expired(p)
       \/ cleanup_expired_loop(p)
       \/ cleanup_expired_unlink(p)

SpecAdmin == Init /\ [][NextAdmin]_vars

Scopes == {"all", "geocoding", "osm", "posters"}
Categories == {"geocoding", "osm_data", "posters"}

\* the category directories a scope selects, as the documentation gives them
Selected(scope) ==
  CASE scope = "all" -> Categories
    [] scope = "geocoding" -> {"geocoding"}
    [] scope = "osm" -> {"osm_data"}
    [] scope = "posters" -> {"posters"}
    [] OTHER -> {}

EntriesIn(store, dirs) == {f \in DOMAIN store : f.dir \in dirs}

\* the entries outside dirs are those of the store found, as they were
Untouched(found, dirs) ==
  /\ EntriesIn(fs, Categories \ dirs) = EntriesIn(found, Categories \ dirs)
  /\ \A f \in EntriesIn(fs, Categories \ dirs) : fs[f] = found[f]

\* the reported count of a category
ReportedCount(stats, dir) ==
  CASE dir = "geocoding" -> stats.geocoding.count
    [] dir = "osm_data" -> stats.osm_data.count
    [] dir = "posters" -> stats.posters.count

ReportedSize(stats, dir) ==
  CASE dir = "geocoding" -> stats.geocoding.size_mb
    [] dir = "osm_data" -> stats.osm_data.size_mb
    [] dir = "posters" -> stats.posters.size_mb

\* q is the call after p, both have returned, and there is no other call
Then(p, q) ==
  /\ pc[p] = "done" /\ pc[q] = "done"
  /\ p \in fr[q].before
  /\ \A r \in Procs \ {p, q} : pc[r] = "idle"

\* C13: after a clear with one of the four scopes that no other call overlaps
\* and in which no deletion fails, the selected categories hold no entry, the
\* others hold the entries they held, unchanged; the statistics taken next
\* report 0 for the selected categories and the former counts for the others.
ClearEmptiesSelected ==
  /\ \A p \in Procs :
       /\ fr[p].op = "clear_cache" /\ pc[p] = "done" /\ Alone(p) /\ faults = 0
       /\ fr[p].args.cache_type \in Scopes
       => /\ EntriesIn(fs, Selected(fr[p].args.cache_type)) = {}
          /\ Untouched(fr[p].store0, Selected(fr[p].args.cache_type))
  /\ \A p, q \in Procs :
       /\ Then(p, q) /\ faults = 0
       /\ fr[p].op = "clear_cache" /\ fr[p].args.cache_type \in Scopes
       /\ fr[q].op = "get_cache_stats"
       => /\ fr[q].ret.kind = "value"
          /\ \A dir \in Categories :
               ReportedCount(fr[q].ret.v, dir) =
                 IF dir \in Selected(fr[p].args.cache_type) THEN 0
                 ELSE Cardinality(EntriesIn(fr[p].store0, {dir}))

\* C13 witness: the feature bundles were cleared, and the statistics taken
\* next report none of them and the two geocoding entries
ClearedBundlesReported ==
  \E p, q \in Procs :
    /\ Then(p, q) /\ faults = 0
    /\ fr[p].op = "clear_cache" /\ fr[p].args.cache_type = "osm"
    /\ Cardinality(EntriesIn(fr[p].store0, {"osm_data"})) = 3
    /\ fr[q].op = "get_cache_stats" /\ fr[q].ret.kind = "value"
    /\ fr[q].ret.v.osm_data.count = 0
    /\ fr[q].ret.v.geocoding.count = 2

\* C14: a clear does not raise when a deletion fails, and goes on: of the
\* selected categories exactly the entries whose deletion failed remain.
ClearSkipsFailedDeletion ==
  \A p \in Procs :
    fr[p].op = "clear_cache" /\ pc[p] = "done" =>
      /\ fr[p].ret = ReturnNone
      /\ (\A q \in Procs \ {p} : pc[q] = "idle") =>
           /\ Cardinality(EntriesIn(fs, Selected(fr[p].args.cache_type))) = faults
           /\ EntriesIn(fs, Categories) \subseteq EntriesIn(fr[p].store0, Categories)
           /\ Untouched(fr[p].store0, Selected(fr[p].args.cache_type))

\* C14 witness: a clear of everything in which one deletion failed has
\* returned, and of six entries that one is left
ClearLeftOneEntry ==
  \E p \in Procs :
    /\ fr[p].op = "clear_cache" /\ pc[p] = "done" /\ fr[p].args.cache_type = "all"
    /\ \A q \in Procs \ {p} : pc[q] = "idle"
    /\ faults = 1
    /\ Cardinality(DOMAIN fr[p].store0) = 6
    /\ Cardinality(DOMAIN fs) = 1

\* C18: a clear with a scope that is none of the four deletes nothing in any
\* category and does not raise.
UnknownScopeClearsNothing ==
  \A p \in Procs :
    fr[p].op = "clear_cache" /\ fr[p].args.cache_type \notin Scopes =>
      /\ fr[p].ret.kind # "raise"
      /\ pc[p] # "clear_unlink"
      /\ Alone(p) => fs = fr[p].store0

\* C18 witness: a clear with an unknown scope has returned on a store with
\* entries
UnknownScopeReturned ==
  \E p \in Procs :
    /\ fr[p].op = "clear_cache" /\ fr[p].args.cache_type \notin Scopes
    /\ pc[p] = "done" /\ Alone(p)
    /\ DOMAIN fs # {}

\* the bytes held by a set of files
RECURSIVE Bytes(_, _)
Bytes(store, files) ==
  IF files = {} THEN 0
  ELSE LET f == CHOOSE file \in files : TRUE
       IN  Len(store[f].content) * BlockSize + Bytes(store, files \ {f})

\* hundredths is the number of hundredths of a megabyte nearest to bytes
NearestHundredth(hundredths, bytes) ==
  LET apart == hundredths * 1024 * 1024 - bytes * 100
  IN  apart <= 512 * 1024 /\ -apart <= 512 * 1024

\* C15: the statistics, taken with no other call at work, give for each
\* category the number of entries present in it, expired ones included, and
\* as its size the sum of the sizes of those entries (in megabytes, to the
\* nearest hundredth).
StatsCountEntries ==
  \A p \in Procs :
    fr[p].op = "get_cache_stats" /\ pc[p] = "done" /\ Alone(p) =>
      /\ fr[p].ret.kind = "value"
      /\ \A dir \in Categories :
           /\ ReportedCount(fr[p].ret.v, dir) = Cardinality(EntriesIn(fs, {dir}))
           /\ NearestHundredth(ReportedSize(fr[p].ret.v, dir),
                               Bytes(fs, EntriesIn(fs, {dir})))

\* C15 witness: the statistics count two geocoding entries, one of them past
\* its lifetime, and report their size
ExpiredEntryCounted ==
  \E p \in Procs :
    /\ fr[p].op = "get_cache_stats" /\ pc[p] = "done" /\ Alone(p)
    /\ fr[p].ret.kind = "value"
    /\ fr[p].ret.v.geocoding.count = 2
    /\ fr[p].ret.v.geocoding.size_mb > 0
    /\ \E f \in EntriesIn(fs, {"geocoding"}) :
         now - fs[f].mtime > TTLSeconds("geocoding")
    /\ \E f \in EntriesIn(fs, {"geocoding"}) :
         now - fs[f].mtime < TTLSeconds("geocoding")

\* C16: a sweep made right after a sweep that returned, with no time elapsed
\* and no other call, returns 0 and leaves the store as the first left it.
SweepTwiceRemovesNothing ==
  \A p, q \in Procs :
    /\ Then(p, q)
    /\ fr[p].op = "cleanup_expired" /\ fr[q].op = "cleanup_expired"
    /\ fr[p].ret.kind = "value"
    /\ fr[q].at = fr[p].at
    => /\ fr[q].ret = ReturnValue(0)
       /\ fs = fr[q].store0

\* C16 witness: the first sweep removed entries, the second has returned
SecondSweepReturned ==
  \E p, q \in Procs :
    /\ Then(p, q)
    /\ fr[p].op = "cleanup_expired" /\ fr[q].op = "cleanup_expired"
    /\ fr[p].ret.kind = "value" /\ fr[p].ret.v > 0
    /\ fr[q].at = fr[p].at
    /\ fr[q].ret.kind = "value"
    /\ DOMAIN fs # {}

(***************************************************************************)
(* The endpoint POST /api/cache/clear (app.py)                             *)
(***************************************************************************)
\* The bodies of the requests: none, the empty object, an object with a
\* type, and a body that is JSON but no object.
NoBody == [json |-> "null", data |-> <<>>]
ObjectBody(data) == [json |-> "object", data |-> data]
ArrayBody == [json |-> "array", data |-> <<>>]
Requests == {NoBody, ObjectBody(<<>>), ArrayBody}
              \cup {ObjectBody([type |-> t]) : t \in CacheTypes}

\* app.py line 94: the types the endpoint lets through
EndpointTypes == {"all", "geocoding", "osm", "posters"}

\* the endpoint's answers
Response(status, success) == ReturnValue([status |-> status, success |-> success])

clear_cache_endpoint(p) ==
  /\ Free(p)
  /\ \E request \in Requests :
       Call(p, "clear_cache_endpoint", NoFile, 0,
            [cache_type |-> "", request |-> request], <<>>, "endpoint_validate")

\* every type handed on to the cache manager
clear_cache_endpoint_validate_lenient(p) ==
  /\ pc[p] = "endpoint_validate"
  /\ LET request == fr[p].args.request
         data == IF request.json = "null" THEN <<>> ELSE request.data
     IN  IF request.json = "array"
         THEN Finish(p, Response(500, FALSE))
         ELSE /\ fr' = [fr EXCEPT ![p].args.cache_type =
                          IF "type" \in DOMAIN data THEN data["type"] ELSE "all"]
              /\ pc' = [pc EXCEPT ![p] = "clear_glob"]
  /\ UNCHANGED <<fs, now, ticks, faults>>

\* app.py lines 91-101: data = request.get_json() or {}; data.get('type',
\* 'all'), which a body that is no object does not have (AttributeError,
\* answered 500 at lines 107-111); the 400 for a type outside the list; else
\* cache.clear_cache(cache_type)
clear_cache_endpoint_validate(p) ==
  /\ pc[p] = "endpoint_validate"
  /\ LET request == fr[p].args.request
         data == IF request.json = "null" THEN <<>> ELSE request.data
         cache_type == IF "type" \in DOMAIN data THEN data["type"] ELSE "all"
     IN  IF request.json = "array"
         THEN Finish(p, Response(500, FALSE))
         ELSE IF cache_type \notin EndpointTypes
         THEN Finish(p, Response(400, FALSE))
         ELSE /\ fr' = [fr EXCEPT ![p].args.cache_type = cache_type]
              /\ pc' = [pc EXCEPT ![p] = "clear_glob"]
  /\ UNCHANGED <<fs, now, ticks, faults>>

\* app.py lines 103-106: the answer after clear_cache has returned
clear_cache_endpoint_respond(p) ==
  /\ pc[p] = "endpoint_respond"
  /\ Finish(p, Response(200, TRUE))
  /\ UNCHANGED <<fs, now, ticks, faults>>

NextEndpoint ==
  \E p \in Procs :
    \/ clear_cache_endpoint(p)
    \/ clear_cache_endpoint_validate(p)
    \/ clear_cache_glob(p)
    \/ clear_cache_unlink(p)
    \/ clear_cache_endpoint_respond(p)

SpecEndpoint == Init /\ [][NextEndpoint]_vars

\* the request carries a type, and it is none of the four
InvalidType(request) ==
  /\ request.json = "object"
  /\ "type" \in DOMAIN request.data
  /\ request.data["type"] \notin Scopes

\* the request is an object without a type, or has no body
NoType(request) ==
  \/ request.json = "null"
  \/ request.json = "object" /\ "type" \notin DOMAIN request.data

\* C17: a clear request with a type that is none of the four is answered
\* 400 without the cache manager being called, and the store is as it was;
\* a request with no type is answered 200 after all three categories were
\* cleared.
EndpointRejectsInvalidType ==
  \A p \in Procs :
    fr[p].op = "clear_cache_endpoint" =>
      /\ InvalidType(fr[p].args.request) =>
           /\ pc[p] \notin {"clear_glob", "clear_unlink", "endpoint_respond"}
           /\ pc[p] = "done" => fr[p].ret = Response(400, FALSE)
           /\ Alone(p) => fs = fr[p].store0
      /\ NoType(fr[p].args.request) /\ pc[p] = "done" =>
           /\ fr[p].ret = Response(200, TRUE)
           /\ fr[p].args.cache_type = "all"
           /\ Alone(p) /\ faults = 0 => EntriesIn(fs, Categories) = {}

\* C17 witness: on a store with entries one request with the type
\* 'thumbnails' was answered 400, and then one with no type emptied it
RejectedThenClearedAll ==
  \E p, q \in Procs :
    /\ Then(p, q)
    /\ fr[p].op = "clear_cache_endpoint" /\ fr[q].op = "clear_cache_endpoint"
    /\ InvalidType(fr[p].args.request) /\ fr[p].ret = Response(400, FALSE)
    /\ NoType(fr[q].args.request) /\ fr[q].ret = Response(200, TRUE)
    /\ DOMAIN fr[q].store0 = DOMAIN SeedStore
    /\ DOMAIN fs = {}

(***************************************************************************)
(* The feature bundles in create_poster (create_map_poster.py)             *)
(***************************************************************************)
\* What the three fetches of lines 309-356 can hand over: the street network
\* or None when ox.graph_from_point raised, water or None, parks or None.
FetchOutcomes ==
  Bundles \cup {[graph |-> "G", water |-> None, parks |-> None]}

\* Line 297, cache.get_osm_data(latitude, longitude, distance, 'all'), is
\* the call get_osm_data. Lines 304-360: it returned None, the job fetches
\* and calls cache.set_osm_data with whatever the fetches gave.
create_poster_fetch(p) ==
  /\ pc[p] = "done"
  /\ fr[p].op = "get_osm_data"
  /\ fr[p].ret = ReturnNone
  /\ \E b \in FetchOutcomes : set_osm_data_call(p, fr[p].args, b)

\* Lines 299-303 and 362-364: after the cached bundle was taken, or after
\* set_osm_data returned, the job ends with None when it has no graph and
\* goes on to draw otherwise.
create_poster_render(p) ==
  /\ pc[p] = "done"
  /\ \/ fr[p].op = "get_osm_data" /\ fr[p].ret.kind = "value"
     \/ fr[p].op = "set_osm_data" /\ fr[p].ret.kind = "None"
  /\ LET cached_osm == fr[p].op = "get_osm_data"
         G == IF cached_osm THEN fr[p].ret.v[<<"graph">>] ELSE fr[p].args.graph
     IN  fr' = [fr EXCEPT ![p].op = "create_poster",
                          ![p].args = [latitude |-> fr[p].args.latitude,
                                       longitude |-> fr[p].args.longitude,
                                       distance |-> fr[p].args.distance,
                                       network_type |-> fr[p].args.network_type,
                                       G |-> G, fetched |-> ~cached_osm],
                          ![p].ret = IF G = None THEN ReturnNone
                                     ELSE ReturnValue(<<"poster", G>>)]
  /\ UNCHANGED <<fs, now, pc, ticks, faults>>

NextPipeline ==
  \E p \in Procs :
    \/ is_cache_valid_exists(p)
    \/ is_cache_valid_stat(p)
    \/ get_miss(p)
    \/ get_osm_data(p)
    \/ get_osm_data_read(p)
    \/ create_poster_fetch(p)
    \/ set_osm_data_open(p)
    \/ set_osm_data_dump(p)
    \/ create_poster_render(p)

SpecPipeline == Init /\ [][NextPipeline]_vars

\* C19: a bundle is stored only after the street network was fetched: after
\* a job whose network fetch failed no entry exists for its key, and no job
\* is handed a cached bundle that has no graph.
BundleStoredOnlyWithGraph ==
  /\ \A p \in Procs :
       /\ fr[p].op = "create_poster" /\ fr[p].args.fetched /\ fr[p].args.G = None
       /\ Alone(p)
       => ~exists(fs, fr[p].cache_file)
  /\ \A p \in Procs :
       fr[p].op = "create_poster" /\ ~fr[p].args.fetched => fr[p].args.G # None

(***************************************************************************)
(* A set that fails                                                        *)
(***************************************************************************)
\* C20: a set that fails while serializing or writing leaves the store as it
\* was for its key: the entry that was valid for the key before the set is
\* still there, unchanged, and the get made next returns it.
FailedSetKeepsEntry ==
  \A p, q \in Procs :
    /\ Then(p, q)
    /\ fr[p].op \in Sets /\ fr[q].op \in Gets
    /\ fr[q].cache_file = fr[p].cache_file
    /\ faults > 0
    /\ exists(fr[p].store0, fr[p].cache_file)
    /\ Whole(fr[p].store0[fr[p].cache_file].content)
    /\ fr[q].at - fr[p].store0[fr[p].cache_file].mtime <= TTLSeconds(fr[p].cache_file.dir)
    => /\ exists(fs, fr[p].cache_file)
       /\ fs[fr[p].cache_file] = fr[p].store0[fr[p].cache_file]
       /\ fr[q].ret.kind = "value"

(***************************************************************************)
(* The age of a cached poster                                              *)
(***************************************************************************)
\* C21: the age of a cached poster counts from set_poster: the get_poster
\* made with the same parameters right after a set_poster that copied the
\* image returns the cached path, whatever the source image's modification
\* time.
PosterAgeCountsFromSet ==
  \A p, q \in Procs :
    /\ Then(p, q)
    /\ fr[p].op = "set_poster" /\ fr[q].op = "get_poster"
    /\ fr[q].cache_file = fr[p].cache_file
    /\ fr[p].args.image.present
    /\ faults = 0
    /\ fr[q].at = fr[p].at
    => fr[q].ret = ReturnValue(fr[q].cache_file)

(***************************************************************************)
(* Sets and gets of coordinates and feature bundles, on the stores a       *)
(* behaviour starts from.                                                  *)
(***************************************************************************)
NextEntries ==
  \E p \in Procs :
    \/ is_cache_valid_exists(p)
    \/ is_cache_valid_stat(p)
    \/ get_miss(p)
    \/ get_geocoding(p)
    \/ get_geocoding_read(p)
    \/ set_geocoding(p)
    \/ set_geocoding_open(p)
    \/ set_geocoding_dump(p)
    \/ get_osm_data(p)
    \/ get_osm_data_read(p)
    \/ set_osm_data(p)
    \/ set_osm_data_open(p)
    \/ set_osm_data_dump(p)

SpecEntries == Init /\ [][NextEntries]_vars

\* q is the get of p's category
GetOf(p, q) ==
  \/ fr[p].op = "set_geocoding" /\ fr[q].op = "get_geocoding"
  \/ fr[p].op = "set_osm_data" /\ fr[q].op = "get_osm_data"

\* ret is the payload that the set p was given
PayloadOf(p, ret) ==
  /\ ret.kind = "value"
  /\ IF fr[p].op = "set_geocoding"
     THEN ret.v = <<fr[p].args.latitude, fr[p].args.longitude>>
     ELSE /\ ret.v[<<"graph">>] = fr[p].args.graph
          /\ ret.v[<<"water">>] = fr[p].args.water
          /\ ret.v[<<"parks">>] = fr[p].args.parks

TextOf(p) ==
  IF fr[p].op = "set_geocoding"
  THEN json_dump([city |-> fr[p].args.city, country |-> fr[p].args.country,
                  latitude |-> fr[p].args.latitude, longitude |-> fr[p].args.longitude,
                  cached_at |-> fr[p].at])
  ELSE pickle_dump([graph |-> fr[p].args.graph, water |-> fr[p].args.water,
                    parks |-> fr[p].args.parks,
                    latitude |-> round4(fr[p].args.latitude),
                    longitude |-> round4(fr[p].args.longitude),
                    distance |-> fr[p].args.distance,
                    network_type |-> fr[p].args.network_type, cached_at |-> fr[p].at])

\* C23: when two sets on one key that ran at the same time, with different
\* payloads, have both returned, the artifact is the whole text of one of
\* them, never a mixture.
LastWriterWins ==
  \A p, q \in Procs :
    /\ p # q
    /\ pc[p] = "done" /\ pc[q] = "done"
    /\ fr[p].op \in {"set_geocoding", "set_osm_data"} /\ fr[q].op = fr[p].op
    /\ fr[q].cache_file = fr[p].cache_file
    /\ p \notin fr[q].before /\ q \notin fr[p].before
    /\ TextOf(p) # TextOf(q)
    /\ \A r \in Procs \ {p, q} : pc[r] = "idle"
    /\ faults = 0
    => /\ exists(fs, fr[p].cache_file)
       /\ fs[fr[p].cache_file].content \in {TextOf(p), TextOf(q)}

(***************************************************************************)
(* get_coordinates (create_map_poster.py)                                  *)
(***************************************************************************)
\* What geolocator.geocode gives: a location, nothing (not found), or an
\* exception.
NotFound == [found |-> FALSE, raised |-> FALSE, latitude |-> 0, longitude |-> 0]
GeocoderError == [found |-> FALSE, raised |-> TRUE, latitude |-> 0, longitude |-> 0]
Location(latitude, longitude) ==
  [found |-> TRUE, raised |-> FALSE, latitude |-> latitude, longitude |-> longitude]
Geocoded ==
  {NotFound, GeocoderError}
    \cup {Location(latitude, longitude) : latitude \in Latitudes, longitude \in Longitudes}

\* The end of a job: what it was asked, whether it asked the geocoder, and
\* the calls that had not begun when it ended.
Coordinates(p, geocoded, ret) ==
  /\ fr' = [fr EXCEPT ![p].op = "get_coordinates",
                      ![p].args = [city |-> fr[p].args.city, country |-> fr[p].args.country,
                                   geocoded |-> geocoded,
                                   later |-> {q \in Procs : pc[q] = "idle"}],
                      ![p].ret = ret]
  /\ UNCHANGED <<fs, now, pc, ticks, faults>>

\* Line 108, cache.get_geocoding(city, country), is the call get_geocoding.
\* Lines 109-111: it returned coordinates, which are the job's result.
get_coordinates_cached(p) ==
  /\ pc[p] = "done"
  /\ fr[p].op = "get_geocoding"
  /\ fr[p].ret.kind = "value"
  /\ Coordinates(p, FALSE, fr[p].ret)

\* the location returned and not cached
get_coordinates_geocode_uncached(p) ==
  /\ pc[p] = "done"
  /\ fr[p].op = "get_geocoding"
  /\ fr[p].ret = ReturnNone
  /\ \E location \in Geocoded :
       Coordinates(p, TRUE, IF location.found
                            THEN ReturnValue(<<location.latitude, location.longitude>>)
                            ELSE ReturnNone)

\* Lines 113-130: it returned None, the geocoder is asked; a location is
\* cached with cache.set_geocoding, a failure or no location ends the job
\* with None.
get_coordinates_geocode(p) ==
  /\ pc[p] = "done"
  /\ fr[p].op = "get_geocoding"
  /\ fr[p].ret = ReturnNone
  /\ \E location \in Geocoded :
       IF location.found
       THEN set_geocoding_call(p, fr[p].args, location.latitude, location.longitude)
       ELSE Coordinates(p, TRUE, ReturnNone)

\* Lines 123-124: after set_geocoding has returned, the coordinates are the
\* job's result.
get_coordinates_return(p) ==
  /\ pc[p] = "done"
  /\ fr[p].op = "set_geocoding"
  /\ Coordinates(p, TRUE, ReturnValue(<<fr[p].args.latitude, fr[p].args.longitude>>))

NextCoordinates ==
  \/ Tick
  \/ \E p \in Procs :
       \/ is_cache_valid_exists(p)
       \/ is_cache_valid_stat(p)
       \/ get_miss(p)
       \/ get_geocoding(p)
       \/ get_geocoding_read(p)
       \/ get_coordinates_cached(p)
       \/ get_coordinates_geocode(p)
       \/ set_geocoding_open(p)
       \/ set_geocoding_dump(p)
       \/ get_coordinates_return(p)

SpecCoordinates == Init /\ [][NextCoordinates]_vars

\* the job p has ended, and q began after that
JobBefore(p, q) ==
  /\ pc[p] = "done" /\ fr[p].op = "get_coordinates"
  /\ q \in fr[p].args.later

\* C24: a job whose geocoder call failed or found nothing leaves the store
\* as it found it; after a job that was given a location and cached it, a
\* later job for the same city and country, in any letter case, within the
\* lifetime, returns the same coordinates without asking the geocoder.
CoordinatesCachedOnceFound ==
  /\ \A p \in Procs :
       /\ pc[p] = "done" /\ fr[p].op = "get_coordinates"
       /\ fr[p].args.geocoded /\ fr[p].ret = ReturnNone
       /\ \A r \in Procs \ {p} : pc[r] = "idle" \/ JobBefore(r, p)
       => fs = fr[p].store0
  /\ \A p, q \in Procs :
       /\ JobBefore(p, q)
       /\ fr[p].args.geocoded /\ fr[p].ret.kind = "value"
       /\ pc[q] = "done" /\ fr[q].op = "get_coordinates"
       /\ fr[q].cache_file = fr[p].cache_file
       /\ fr[q].at - fr[p].at <= TTLSeconds("geocoding")
       /\ faults = 0
       /\ \A r \in Procs \ {p, q} : pc[r] = "idle"
       => /\ fr[q].ret = fr[p].ret
          /\ ~fr[q].args.geocoded

\* C24 witness: a job cached the location it was given, and a later job that
\* spelled the city in another letter case got the same coordinates from the
\* cache
CoordinatesFromCacheInOtherCase ==
  \E p, q \in Procs :
    /\ JobBefore(p, q)
    /\ fr[p].args.geocoded /\ fr[p].ret.kind = "value"
    /\ pc[q] = "done" /\ fr[q].op = "get_coordinates"
    /\ fr[q].args.city # fr[p].args.city
    /\ fr[q].cache_file = fr[p].cache_file
    /\ faults = 0
    /\ fr[q].ret = fr[p].ret
    /\ ~fr[q].args.geocoded

(***************************************************************************)
(* The reads, beside sets of coordinates that may fail                     *)
(***************************************************************************)
NextReads ==
  \/ Tick
  \/ \E p \in Procs :
       \/ is_cache_valid_exists(p)
       \/ is_cache_valid_stat(p)
       \/ get_miss(p)
       \/ get_geocoding(p)
       \/ get_geocoding_read(p)
       \/ get_osm_data(p)
       \/ get_osm_data_read(p)
       \/ get_poster(p)
       \/ get_poster_hit(p)
       \/ get_cache_stats(p)
       \/ get_dir_stats_glob(p)
       \/ get_dir_stats_is_file(p)
       \/ get_dir_stats_stat(p)
       \/ set_geocoding(p)
       \/ set_geocoding_open(p)
       \/ set_geocoding_dump(p)

SpecReads == Init /\ [][NextReads]_vars

Reads == Gets \cup {"get_cache_stats"}

\* a step of the call in slot p
StepOf(p) == pc'[p] # pc[p] \/ fr'[p] # fr[p]

\* C25: no step of get_geocoding, get_osm_data, get_poster or
\* get_cache_stats changes the store: no artifact is created, deleted,
\* rewritten or re-dated by it, whatever the get finds.
ReadsLeaveStoreUnchanged ==
  [][\A p \in Procs :
       (fr[p].op \in Reads \/ fr'[p].op \in Reads) /\ StepOf(p) => fs' = fs]_vars

\* C25 witness: get_geocoding found an expired entry, reported a miss, and
\* the entry is in place as it was
ExpiredEntryLeftInPlace ==
  \E p \in Procs :
    /\ fr[p].op = "get_geocoding" /\ pc[p] = "done" /\ fr[p].ret = ReturnNone
    /\ fr[p].seen /\ fr[p].age > TTLSeconds("geocoding")
    /\ exists(fs, fr[p].cache_file)
    /\ fs = fr[p].store0

(***************************************************************************)
(* What statistics, clear and the sweep range over                         *)
(***************************************************************************)
\* A category directory is a directory of the file system: beside the
\* artifacts of the set methods it can hold an item that something else left
\* there, here a text file in the geocoding directory, 100 days old.
ForeignItem == File(geocoding_dir, <<"notes">>, ".txt")

InitRanges ==
  /\ fs \in {SeedStore @@ (ForeignItem :> Artifact(<<"x">>, StartTime - timedelta(100)))}
  /\ now = StartTime
  /\ pc = [p \in Procs |-> "idle"]
  /\ fr = [p \in Procs |-> Frame]
  /\ ticks = 0
  /\ faults = 0

NextRanges ==
  \E p \in Procs :
    \/ is_cache_valid_exists(p)
    \/ is_cache_valid_stat(p)
    \/ clear_cache(p)
    \/ clear_cache_glob(p)
    \/ clear_cache_unlink(p)
    \/ get_cache_stats(p)
    \/ get_dir_stats_glob(p)
    \/ get_dir_stats_is_file(p)
    \/ get_dir_stats_stat(p)
    \/ cleanup_expired(p)
    \/ cleanup_expired_loop(p)
    \/ cleanup_expired_unlink(p)

SpecRanges == InitRanges /\ [][NextRanges]_vars

\* the entries of a category that are within its lifetime
Unexpired(store, dir) ==
  {f \in EntriesIn(store, {dir}) : now - store[f].mtime <= TTLSeconds(dir)}

POSTER_DIR == "./posters"

\* create_map_poster.py lines 46-64: city slug, theme and the time to the
\* second
generate_output_filename(city, theme_name, t) ==
  File(POSTER_DIR, lower(city) \o <<"_">> \o theme_name \o <<"_", ToString(t)>>, ".png")

\* what the requests ask for
GenerateRequests ==
  { [city |-> <<"P", "a">>, country |-> <<"F">>, theme |-> <<"noir">>],
    [city |-> <<"R", "o">>, country |-> <<"F">>, theme |-> <<"noir">>],
    [city |-> <<>>, country |-> <<"F">>, theme |-> <<"noir">>] }

\* the image that the generator started by request p saves
ImageOf(p) == <<"PNG", ToString(p), "IEND">>

\* the endpoint's answers
Generated(success, filename) ==
  ReturnValue([success |-> success, filename |-> filename])

\* an image rendered the day before
InitGenerate ==
  /\ fs = generate_output_filename(<<"P", "a">>, <<"noir">>, StartTime - Day)
            :> Artifact(<<"PNG", "0", "IEND">>, StartTime - Day)
  /\ now = StartTime
  /\ pc = [p \in Procs |-> "idle"]
  /\ fr = [p \in Procs |-> Frame]
  /\ ticks = 0
  /\ faults = 0

\* app.py lines 28-35: the request, refused without city or country
generate(p) ==
  /\ Free(p)
  /\ \E request \in GenerateRequests :
       Call(p, "generate", NoFile, 0,
            [city |-> request.city, country |-> request.country, theme |-> request.theme,
             made |-> NoFile],
            <<>>,
            IF request.city = <<>> \/ request.country = <<>>
            THEN "generate_refuse" ELSE "generate_existing")

generate_refuse(p) ==
  /\ pc[p] = "generate_refuse"
  /\ Finish(p, Generated(FALSE, NoFile))
  /\ UNCHANGED <<fs, now, ticks, faults>>

\* app.py line 46: existing_files = set(glob.glob(POSTER_DIR/*.png))
generate_existing(p) ==
  /\ pc[p] = "generate_existing"
  /\ fr' = [fr EXCEPT ![p].files = glob(fs, POSTER_DIR, <<"*", ".png">>)]
  /\ pc' = [pc EXCEPT ![p] = "generate_run"]
  /\ UNCHANGED <<fs, now, ticks, faults>>

\* app.py line 48, subprocess.run(cmd, check=True, timeout=600): the script
\* saves its image under generate_output_filename (create_map_poster.py lines
\* 507-528) and exits 0; or it ends without an image and exits 0 all the same
\* (create_poster returns None, main returns); or it fails or runs out of
\* time, which raises, and the endpoint answers with the error (lines
\* 65-66).  Rendering takes time.
generate_run(p) ==
  /\ pc[p] = "generate_run"
  /\ now' = now + 1
  /\ \/ LET file == generate_output_filename(fr[p].args.city, fr[p].args.theme, now)
        IN  /\ fs' = (file :> Artifact(ImageOf(p), now')) @@ fs
            /\ fr' = [fr EXCEPT ![p].args.made = file]
            /\ pc' = [pc EXCEPT ![p] = "generate_respond"]
     \/ /\ pc' = [pc EXCEPT ![p] = "generate_respond"]
        /\ UNCHANGED <<fs, fr>>
     \/ /\ Finish(p, Generated(FALSE, NoFile))
        /\ UNCHANGED fs
  /\ UNCHANGED <<ticks, faults>>

\* app.py lines 50-63: the files that were not there before; the one changed
\* last is the answer, and with none the request has failed
generate_respond(p) ==
  /\ pc[p] = "generate_respond"
  /\ LET current_files == glob(fs, POSTER_DIR, <<"*", ".png">>)
         new_files == current_files \ fr[p].files
     IN  IF new_files # {}
         THEN \E latest_file \in new_files :
                /\ \A f \in new_files : fs[f].mtime <= fs[latest_file].mtime
                /\ Finish(p, Generated(TRUE, latest_file))
         ELSE Finish(p, Generated(FALSE, NoFile))
  /\ UNCHANGED <<fs, now, ticks, faults>>

NextGenerate ==
  \E p \in Procs :
    \/ generate(p)
    \/ generate_refuse(p)
    \/ generate_existing(p)
    \/ generate_run(p)
    \/ generate_respond(p)

SpecGenerate == InitGenerate /\ [][NextGenerate]_vars

\* C27: a request that reports success names the image that its own
\* generator saved, and a request whose generator saved no image reports
\* failure.
GenerateNamesOwnImage ==
  \A p \in Procs :
    fr[p].op = "generate" /\ pc[p] = "done" =>
      /\ fr[p].ret.v.success =>
           /\ fr[p].ret.v.filename = fr[p].args.made
           /\ fs[fr[p].ret.v.filename].content = ImageOf(p)
      /\ fr[p].args.made = NoFile => ~fr[p].ret.v.success

====
